---- MODULE Spec2Model ----
(***************************************************************************)
(* Real-time state-synchronisation client of the Family Hub dashboard.     *)
(*                                                                         *)
(* Two stores own a WebSocket channel each:                                *)
(*   - the trading store   (createTradingStore,   src/unnamed/part_003,    *)
(*     and its older copy in src/frontend/src/lib/stores/trading.ts,       *)
(*     followed when stream = "legacy")                                    *)
(*   - the device websocket store (createWebSocketStore,                   *)
(*                          src/frontend/src/lib/stores/trading.ts)        *)
(* and the derived store traderStatus classifies the trading state.        *)
(*                                                                         *)
(* JavaScript values: a nullable value is None (null / undefined) or       *)
(* Some(v); an object is a record; a timestamp string is a record          *)
(* [iso |-> t] (the ISO-8601 text of the instant t, in ms) or              *)
(* [text |-> s] (a string that is no date); a value that is no object is   *)
(* a one-field record naming its type ([number |-> 0], [boolean |-> FALSE],*)
(* [text |-> ""]).                                                         *)
(* Every handler runs to completion (single-threaded event loop), so each  *)
(* handler is one action.  The two stores share no state; a behaviour      *)
(* follows one of them, chosen by `stream`.                                *)
(***************************************************************************)
EXTENDS Integers, Sequences, FiniteSets, TLC

VARIABLES
    stream,             \* which store instance the behaviour follows
    now,                \* Date.now(), in ms
    \* ---- trading store (createTradingStore) ----
    t_state,            \* the writable<TradingState>
    t_ws,               \* let ws: index into t_sockets, 0 = null
    t_reconnectTimer,   \* let reconnectTimer: TRUE = holds a timeout handle
    t_staleCheckTimer,  \* let staleCheckTimer: TRUE = holds an interval handle
    t_sockets,          \* every WebSocket the store has constructed
    t_timeouts,         \* number of pending setTimeout callbacks of the store
    t_intervals,        \* number of active setInterval timers of the store
    t_failing,          \* socket whose error event ran and whose close event follows
    t_torn,             \* TRUE from disconnect() until the next connect() by a page
    traderStatus,       \* current value of the derived store traderStatus
    \* ---- device websocket store (createWebSocketStore) ----
    w_state,            \* the writable<WsState>
    w_ws,
    w_reconnectTimer,
    w_pingInterval,     \* let pingInterval: TRUE = holds an interval handle
    w_sockets,
    w_timeouts,
    w_intervals,
    w_failing,
    w_torn,
    \* ---- devices store (createDevicesStore) and the device cards ----
    d_state,            \* the writable<DeviceState>
    d_loads,            \* number of load() calls awaiting getDevices()
    activeTab,          \* the dashboard's let activeTab; None: no dashboard mounted
    c_loading,          \* per device: let loading of the card on the page
    c_calls,            \* the commands the cards' handlers are awaiting
    c_refresh,          \* per card: pending timeouts of refreshDeviceAfterCommand
    c_fetches,          \* per card: getDevice() calls awaiting their response
    c_console,          \* the last console.error of the cards
    d_events,           \* events the device pages have handled so far
    f_power,            \* the lamp's power as the feed last reported it since the
                        \* latest load() was requested or a fetch was stored
    \* ---- what the trading page holds ----
    t_returned,         \* the value the last control command returned
    servicesHealth,     \* current value of the derived store servicesHealth
    \* ---- a second instance of the trading store, fed the same frames ----
    r_twin,             \* its writable<TradingState>
    r_clock,            \* Date.now() where it runs
    r_log               \* the envelopes both instances have accepted, in order

t_vars == <<t_state, t_ws, t_reconnectTimer, t_staleCheckTimer, t_sockets,
            t_timeouts, t_intervals, t_failing, t_torn, traderStatus>>
w_vars == <<w_state, w_ws, w_reconnectTimer, w_pingInterval, w_sockets,
            w_timeouts, w_intervals, w_failing, w_torn>>
d_vars == <<d_state, d_loads, activeTab, c_loading, c_calls, c_refresh, c_fetches,
            c_console>>
p_vars == <<t_returned, servicesHealth>>
r_vars == <<r_twin, r_clock, r_log>>
vars == <<stream, now, t_vars, w_vars, d_vars, d_events, f_power, p_vars, r_vars>>

----------------------------------------------------------------------------
(* Bounds of the model *)

\* sockets a store may construct in one behaviour
MaxSockets == 3
\* publish frames (trading) / ping frames (device) recorded per socket
MaxSent == 1
\* clock steps (of ClockStep ms each) a behaviour may take
MaxClockSteps == 4
\* load() calls in flight
MaxLoads == 1
\* envelopes the two store instances are fed
MaxLog == 3
\* clock steps while the two store instances are fed
MaxReplayTicks == 1
\* confirmation fetches (timer pending, request in flight, or to follow a
\* command in flight) per device
MaxRefresh == 2
\* commands of the cards in flight
MaxCalls == 2
\* events (calls of the pages, socket events, timers, responses) the device
\* pages handle in one behaviour
MaxEvents == 8

----------------------------------------------------------------------------
(* JavaScript values *)

None == <<>>
Some(v) == <<v>>
Val(o) == o[1]

\* a string, a number, a boolean
Text(s) == [text |-> s]
Num(n) == [number |-> n]
Bool(b) == [boolean |-> b]

\* typeof v === 'number'
IsNumber(v) == v # None /\ DOMAIN Val(v) = {"number"}

\* the values that count as false in a condition, besides null / undefined
Falsy == {[text |-> ""], [number |-> 0], [boolean |-> FALSE]}

\* v in a condition (if (v), v && ..., v || ...)
Truthy(v) == v # None /\ Val(v) \notin Falsy

Iso(t) == [iso |-> t]
NotADate == [text |-> "n/a"]

\* new Date(s).getTime(): the instant of an ISO string, NaN (None) otherwise
GetTime(s) == IF "iso" \in DOMAIN s THEN Some(s.iso) ELSE None

\* new Date().toISOString()
ToISOString(t) == Iso(t)

----------------------------------------------------------------------------
(* The WebSocket objects (browser side) *)

NewSocket == [readyState |-> "CONNECTING", sent |-> <<>>, torn |-> FALSE]

\* WebSocket.send: throws while CONNECTING, transmits while OPEN, is dropped
\* while CLOSING / CLOSED
SendOn(socks, i, frame) ==
    IF socks[i].readyState = "OPEN"
    THEN [socks EXCEPT ![i].sent = Append(@, frame)]
    ELSE socks

\* WebSocket.close(): CONNECTING / OPEN -> CLOSING; no effect otherwise
CloseSocket(socks, i) ==
    IF socks[i].readyState \in {"CONNECTING", "OPEN"}
    THEN [socks EXCEPT ![i].readyState = "CLOSING", ![i].torn = TRUE]
    ELSE [socks EXCEPT ![i].torn = TRUE]

\* the connection of socket i is gone: readyState CLOSED; the record of the
\* frames sent on it goes with it
Shut(socks, i) == [socks EXCEPT ![i].readyState = "CLOSED", ![i].sent = <<>>]

IsOpen(socks, i) == i # 0 /\ socks[i].readyState = "OPEN"

----------------------------------------------------------------------------
(* Trading store: state, staleness, topic reducers, derived status *)

STALE_THRESHOLD_MS == 180000

\* the older copy of the store: const STALE_THRESHOLD_MS = 75_000
legacy_STALE_THRESHOLD_MS == 75000

\* the behaviour follows the older copy of the trading store
Legacy == stream = "legacy"

\* the clock moves in steps of half the staleness threshold, so that a message
\* is seen at ages 0, T/2, T (not yet stale), 3T/2, ...
ClockStep == STALE_THRESHOLD_MS \div 2

\* obj.field, undefined (None) when the object has no such property
Get(obj, field) == IF field \in DOMAIN obj THEN obj[field] ELSE None

\* n || 0 on a nullable number
OrZero(n) == IF n = None THEN 0 ELSE Val(n)

\* s || dflt on a nullable string ('' is falsy)
OrText(s, dflt) == IF s = None \/ s = Some("") THEN dflt ELSE Val(s)

\* b ?? dflt on a nullable boolean
OrElse(b, dflt) == IF b = None THEN dflt ELSE Val(b)

\* the initial TradingState; the three arrays start empty, every other slice null
initialState ==
    [connected |-> FALSE, lastUpdate |-> None, error |-> None,
     heartbeat |-> None, mlEntry |-> None, mlExit |-> None,
     onlineLearning |-> None, dna |-> None, t5008 |-> None,
     scannerStock |-> None, scannerForex |-> None, engine |-> None,
     ibkr |-> None, breakers |-> None,
     positions |-> <<>>, closedToday |-> <<>>, summary |-> None,
     pipeline |-> None, recommendations |-> <<>>, errors |-> None,
     account |-> None, currencies |-> None, capital |-> None,
     marketControl |-> None,
     marginProtectionConfig |-> None, marginProtectionScores |-> None,
     tradingConfig |-> None,
     historySummary |-> None, allTimeStats |-> None,
     positionLimits |-> None, budgetConfig |-> None]

\* the older copy of the store: initialState ends with tradingConfig
legacy_initialState ==
    [slice \in DOMAIN initialState
                \ {"historySummary", "allTimeStats", "positionLimits", "budgetConfig"}
        |-> initialState[slice]]

\* the initialState of the copy the behaviour follows
storeInitialState == IF Legacy THEN legacy_initialState ELSE initialState

\* isDataStale, with Date.now() = clock.  A comparison with NaN is false.
isDataStale(lastUpdate, clock) ==
    IF lastUpdate = None THEN TRUE
    ELSE LET lastTime == GetTime(Val(lastUpdate))
         IN  IF lastTime = None THEN FALSE
             ELSE (clock - Val(lastTime)) >
                    IF Legacy THEN legacy_STALE_THRESHOLD_MS ELSE STALE_THRESHOLD_MS

\* the topics of TOPIC_HANDLERS whose reducer replaces one slice by the
\* payload, with the slice
ReplaceTopics ==
    [topic \in {"trader/services/heartbeat", "trader/services/ml_entry",
                "trader/services/ml_exit", "trader/services/online_learning",
                "trader/services/dna", "trader/services/t5008",
                "trader/services/scanner_stock", "trader/services/scanner_forex",
                "trader/services/engine", "trader/services/ibkr",
                "trader/services/breakers", "trader/portfolio/summary",
                "trader/scanner/pipeline", "trader/errors/summary",
                "trader/account/summary",
                "trader/margin_protection/config", "trader/margin_protection/scores",
                "trader/config/trading", "trader/config/position_limits",
                "trader/config/budget",
                "trader/history/daily_stats", "trader/history/all_time"} |->
        CASE topic = "trader/services/heartbeat"       -> "heartbeat"
          [] topic = "trader/services/ml_entry"        -> "mlEntry"
          [] topic = "trader/services/ml_exit"         -> "mlExit"
          [] topic = "trader/services/online_learning" -> "onlineLearning"
          [] topic = "trader/services/dna"             -> "dna"
          [] topic = "trader/services/t5008"           -> "t5008"
          [] topic = "trader/services/scanner_stock"   -> "scannerStock"
          [] topic = "trader/services/scanner_forex"   -> "scannerForex"
          [] topic = "trader/services/engine"          -> "engine"
          [] topic = "trader/services/ibkr"            -> "ibkr"
          [] topic = "trader/services/breakers"        -> "breakers"
          [] topic = "trader/portfolio/summary"        -> "summary"
          [] topic = "trader/scanner/pipeline"         -> "pipeline"
          [] topic = "trader/errors/summary"           -> "errors"
          [] topic = "trader/account/summary"          -> "account"
          [] topic = "trader/margin_protection/config" -> "marginProtectionConfig"
          [] topic = "trader/margin_protection/scores" -> "marginProtectionScores"
          [] topic = "trader/config/trading"           -> "tradingConfig"
          [] topic = "trader/config/position_limits"   -> "positionLimits"
          [] topic = "trader/config/budget"            -> "budgetConfig"
          [] topic = "trader/history/daily_stats"      -> "historySummary"
          [] topic = "trader/history/all_time"         -> "allTimeStats"]

\* the topics whose reducer takes an array out of the payload (payload.<field>
\* || []), with the slice and the field
ArrayTopics ==
    [topic \in {"trader/portfolio/positions", "trader/portfolio/closed_today",
                "trader/scanner/recommendations"} |->
        CASE topic = "trader/portfolio/positions" ->
                [slice |-> "positions", field |-> "positions"]
          [] topic = "trader/portfolio/closed_today" ->
                [slice |-> "closedToday", field |-> "trades"]
          [] topic = "trader/scanner/recommendations" ->
                [slice |-> "recommendations", field |-> "candidates"]]

\* the own keys of TOPIC_HANDLERS: besides the two families above, the three
\* topics whose reducer rebuilds the payload in the shape the pages read, and
\* the incremental history update
Topics == DOMAIN ReplaceTopics \cup DOMAIN ArrayTopics
            \cup {"trader/account/currencies", "trader/capital/allocation",
                  "trader/control/status", "trader/history/update"}

\* the older copy of the store: the own keys of its TOPIC_HANDLERS
legacy_Topics ==
    Topics \ {"trader/config/position_limits", "trader/config/budget",
              "trader/history/daily_stats", "trader/history/all_time",
              "trader/history/update"}

\* TOPIC_HANDLERS['trader/account/currencies']: payload.currencies maps a
\* currency to its balance
currenciesOf(payload) ==
    LET given == Get(payload, "currencies")
        balances == IF given = None THEN [c \in {} |-> None] ELSE Val(given)
    IN  [currencies |->
            [c \in DOMAIN balances |->
                [cash |-> OrZero(Get(balances[c], "cash")),
                 settled_cash |->
                    IF OrZero(Get(balances[c], "settled_cash")) # 0
                    THEN OrZero(Get(balances[c], "settled_cash"))
                    ELSE OrZero(Get(balances[c], "settled")),
                 accrued_interest |-> OrZero(Get(balances[c], "accrued_interest"))]],
         base_currency |->
            OrText(Get(payload, "base_currency"),
                   OrText(Get(payload, "primary_currency"), "USD"))]

\* data.<market>?.<field>
Nested(payload, market, field) ==
    IF Get(payload, market) = None THEN None
    ELSE Get(Val(Get(payload, market)), field)

\* TOPIC_HANDLERS['trader/capital/allocation']
capitalOf(payload) ==
    [stock_budget    |-> OrZero(Nested(payload, "stock", "budget")),
     stock_used      |-> OrZero(Nested(payload, "stock", "used")),
     stock_available |-> OrZero(Nested(payload, "stock", "available")),
     forex_budget    |-> OrZero(Nested(payload, "forex", "budget")),
     forex_used      |-> OrZero(Nested(payload, "forex", "used")),
     forex_available |-> OrZero(Nested(payload, "forex", "available")),
     reserve         |-> OrZero(Get(payload, "reserve")),
     session         |-> OrText(Get(payload, "session"), "UNKNOWN"),
     stock_enabled   |-> OrElse(Nested(payload, "stock", "enabled"), TRUE),
     forex_enabled   |-> OrElse(Nested(payload, "forex", "enabled"), TRUE)]

\* TOPIC_HANDLERS['trader/control/status']
marketControlOf(payload) ==
    [stock_enabled |-> OrElse(Nested(payload, "stock", "enabled"),
                             OrElse(Get(payload, "stock_enabled"), TRUE)),
     forex_enabled |-> OrElse(Nested(payload, "forex", "enabled"),
                             OrElse(Get(payload, "forex_enabled"), TRUE)),
     stock_reason  |-> OrText(Nested(payload, "stock", "reason"),
                              OrText(Get(payload, "stock_reason"), "")),
     forex_reason  |-> OrText(Nested(payload, "forex", "reason"),
                              OrText(Get(payload, "forex_reason"), ""))]

\* array.map(x => x.date === item.date ? item : x), then unshift(item) if no
\* element of the result has the date of item
Upsert(array, item) ==
    LET mapped == [k \in 1..Len(array) |->
                      IF array[k].date = item.date THEN item ELSE array[k]]
    IN  IF \E k \in 1..Len(mapped) : mapped[k].date = item.date
        THEN mapped
        ELSE <<item>> \o mapped

\* (mutant) a history update that always adds the day it is given
historyUpdate_alwaysAdds(state, payload) ==
    IF state.historySummary = None THEN [k \in {} |-> None]
    ELSE LET summary == Val(state.historySummary)
         IN  [historySummary |-> Some([summary EXCEPT
                !.daily_stats = <<payload.daily_stats>> \o @,
                !.ml_metrics = <<payload.ml_metrics>> \o @])]

\* TOPIC_HANDLERS['trader/history/update']
historyUpdate(state, payload) ==
    IF state.historySummary = None THEN [k \in {} |-> None]
    ELSE LET summary == Val(state.historySummary)
         IN  [historySummary |-> Some([summary EXCEPT
                !.daily_stats = Upsert(@, payload.daily_stats),
                !.ml_metrics = Upsert(@, payload.ml_metrics)])]

\* TOPIC_HANDLERS is an object literal: besides its own keys, a lookup finds
\* the properties inherited from Object.prototype, all of them truthy.
InheritedKeys ==
    {"constructor", "toString", "toLocaleString", "valueOf", "hasOwnProperty",
     "isPrototypeOf", "propertyIsEnumerable", "__proto__", "__defineGetter__",
     "__defineSetter__", "__lookupGetter__", "__lookupSetter__"}

\* '[object Undefined]' spread into an object: one property per character,
\* keyed by its index
ObjectUndefined ==
    [k \in {"0", "1", "2", "3", "4", "5", "6", "7", "8", "9", "10", "11", "12",
            "13", "14", "15", "16", "17"} |->
        CASE k = "0" -> "["  [] k = "1" -> "o"  [] k = "2" -> "b"
          [] k = "3" -> "j"  [] k = "4" -> "e"  [] k = "5" -> "c"
          [] k = "6" -> "t"  [] k = "7" -> " "  [] k = "8" -> "U"
          [] k = "9" -> "n"  [] k = "10" -> "d" [] k = "11" -> "e"
          [] k = "12" -> "f" [] k = "13" -> "i" [] k = "14" -> "n"
          [] k = "15" -> "e" [] k = "16" -> "d" [] k = "17" -> "]"]

\* TOPIC_HANDLERS[topic](state, payload): the partial update, for a handler
\* that returns
TOPIC_HANDLERS(topic, state, payload) ==
    CASE topic \in DOMAIN ReplaceTopics ->
            [slice \in {ReplaceTopics[topic]} |-> Some(payload)]
      [] topic \in DOMAIN ArrayTopics ->
            [slice \in {ArrayTopics[topic].slice} |->
                IF Get(payload, ArrayTopics[topic].field) = None THEN <<>>
                ELSE Val(Get(payload, ArrayTopics[topic].field))]
      [] topic = "trader/account/currencies" ->
            [currencies |-> Some(currenciesOf(payload))]
      [] topic = "trader/capital/allocation" ->
            [capital |-> Some(capitalOf(payload))]
      [] topic = "trader/control/status" ->
            [marketControl |-> Some(marketControlOf(payload))]
      [] topic = "trader/history/update" -> historyUpdate(state, payload)
      [] topic = "constructor" -> state
      [] topic = "toString" -> ObjectUndefined

\* { ...state, ...updates }
Spread(state, updates) ==
    [k \in DOMAIN state \cup DOMAIN updates |->
        IF k \in DOMAIN updates THEN updates[k] ELSE state[k]]

\* the derived store traderStatus, evaluated on state s when Date.now() = clock
traderStatusOf(s, clock) ==
    LET stale == isDataStale(s.lastUpdate, clock)
        engineStatus == IF s.engine = None THEN "undefined" ELSE Val(s.engine).status
    IN  IF s.engine = None /\ s.heartbeat = None
            THEN [status |-> "UNKNOWN", isStale |-> TRUE]
        ELSE IF stale
            THEN [status |-> "OFFLINE", isStale |-> TRUE]
        ELSE IF engineStatus \in {"RUNNING", "ok"}
            THEN [status |-> "RUNNING", isStale |-> FALSE]
        ELSE IF engineStatus \in {"PAUSED", "warning"}
            THEN [status |-> "PAUSED", isStale |-> FALSE]
        ELSE IF engineStatus \in {"DOWN", "error", "STOPPED"}
            THEN [status |-> "STOPPED", isStale |-> FALSE]
        ELSE [status |-> "UNKNOWN", isStale |-> stale]

\* $trading.<slice>?.status
StatusOf(slice) == IF slice = None THEN None ELSE Some(Val(slice).status)

\* the derived store servicesHealth, evaluated on state s
servicesHealthOf(s) ==
    LET services ==
            << [name |-> "ML Entry",         status |-> StatusOf(s.mlEntry)],
               [name |-> "ML Exit",          status |-> StatusOf(s.mlExit)],
               [name |-> "Online Learning",  status |-> StatusOf(s.onlineLearning)],
               [name |-> "Position DNA",     status |-> StatusOf(s.dna)],
               [name |-> "T5008 Tax",        status |-> StatusOf(s.t5008)],
               [name |-> "Stock Scanner",    status |-> StatusOf(s.scannerStock)],
               [name |-> "Forex Scanner",    status |-> StatusOf(s.scannerForex)],
               [name |-> "Trading Engine",   status |-> StatusOf(s.engine)],
               [name |-> "IBKR",             status |-> StatusOf(s.ibkr)],
               [name |-> "Circuit Breakers", status |-> StatusOf(s.breakers)] >>
        isHealthy(status) == status \in {Some("ok"), Some("HEALTHY"), Some("RUNNING")}
        isDegraded(status) == status \in {Some("warning"), Some("DEGRADED")}
        isDown(status) == status \in {Some("error"), Some("DOWN")}
        isUnknown(status) == status \in {None, Some(""), Some("UNKNOWN"), Some("unknown")}
        Filter(test(_)) == {k \in 1..Len(services) : test(services[k].status)}
    IN  [services |-> services,
         healthy  |-> Cardinality(Filter(isHealthy)),
         degraded |-> Cardinality(Filter(isDegraded)),
         down     |-> Cardinality(Filter(isDown)),
         unknown  |-> Cardinality(Filter(isUnknown)),
         total    |-> Len(services)]

\* the callback of the stale-check interval, as a function of the state
staleCheck(state, clock) ==
    IF state.lastUpdate # None /\ isDataStale(state.lastUpdate, clock)
    THEN [state EXCEPT
            !.engine = IF state.engine # None
                       THEN Some([Val(state.engine) EXCEPT !.status = "DOWN"])
                       ELSE None,
            !.error = Some("Trader offline - no heartbeat received")]
    ELSE state

\* (mutant) a message time that is always the time of arrival
messageTimeOf_arrivalOnly(message, clock) == Some(ToISOString(clock))

\* messageTime: message.timestamp || payload.timestamp || new Date().toISOString()
messageTimeOf(message, clock) ==
    LET payloadTimestamp == Get(Val(message.payload), "timestamp")
    IN  IF Truthy(message.timestamp) THEN message.timestamp
        ELSE IF Truthy(payloadTimestamp) THEN payloadTimestamp
        ELSE Some(ToISOString(clock))

\* (mutant) an accepted envelope that leaves the error flag as it was
acceptEnvelope_keepsError(state, message, clock) ==
    LET updates == TOPIC_HANDLERS(Val(message.topic), state, Val(message.payload))
    IN  [Spread(state, updates) EXCEPT !.lastUpdate = messageTimeOf(message, clock)]

\* (mutant) an accepted envelope that leaves lastUpdate as it was
acceptEnvelope_keepsLastUpdate(state, message, clock) ==
    LET updates == TOPIC_HANDLERS(Val(message.topic), state, Val(message.payload))
    IN  [Spread(state, updates) EXCEPT !.error = None]

\* the accepted-envelope branch of handleMessage, as a function of the state
acceptEnvelope(state, message, clock) ==
    LET updates == TOPIC_HANDLERS(Val(message.topic), state, Val(message.payload))
    IN  [Spread(state, updates) EXCEPT !.lastUpdate = messageTimeOf(message, clock),
                                       !.error = None]

\* the older copy of the store, the accepted-envelope branch of handleMessage:
\* messageTime = payloadTimestamp || new Date().toISOString(), and the result
\* is { ...state, ...updates, lastUpdate: messageTime }
legacy_acceptEnvelope(state, message, clock) ==
    LET updates == TOPIC_HANDLERS(Val(message.topic), state, Val(message.payload))
        payloadTimestamp == Get(Val(message.payload), "timestamp")
    IN  [Spread(state, updates) EXCEPT
            !.lastUpdate = IF Truthy(payloadTimestamp) THEN payloadTimestamp
                           ELSE Some(ToISOString(clock))]

\* handleMessage accepts: data kind, a truthy topic (a string that is not
\* empty), a truthy payload, and a truthy TOPIC_HANDLERS[message.topic]
accepted(message) ==
    /\ message.type = "mqtt"
    /\ message.topic # None /\ Val(message.topic) # ""
    /\ Truthy(message.payload)
    /\ Val(message.topic) \in (IF Legacy THEN legacy_Topics ELSE Topics) \cup InheritedKeys

\* the handler found for the message throws inside update(): the store keeps
\* its value and the exception leaves handleMessage.  Called as
\* handler(state, payload) with no receiver, Object returns its first argument
\* and Object.prototype.toString returns '[object Undefined]'; the other
\* inherited values throw a TypeError (no receiver to convert; __proto__ is not
\* a function).
handlerThrows(message) ==
    Val(message.topic) \in InheritedKeys \ {"constructor", "toString"}

handleMessage(state, message, clock) ==
    IF accepted(message) /\ ~handlerThrows(message)
    THEN IF Legacy THEN legacy_acceptEnvelope(state, message, clock)
         ELSE acceptEnvelope(state, message, clock)
    ELSE state

----------------------------------------------------------------------------
(* Inbound frames of the trading stream *)

\* the payloads the model feeds: engine and heartbeat carry a status, the
\* heartbeat may carry its own timestamp (ServiceStatus.timestamp?)
EngineStatuses == {"RUNNING"}
PayloadTimestamps == {None, Some(Iso(0))}

Payloads(topic) ==
    CASE topic = "trader/services/engine" ->
            {[status |-> st, mode |-> "LIVE", timestamp |-> None] : st \in EngineStatuses}
      [] topic = "trader/services/heartbeat" ->
            {[status |-> "ok", timestamp |-> ts] : ts \in PayloadTimestamps}
      [] topic = "trader/portfolio/positions" ->
            {[positions |-> Some(<<[symbol |-> "AAPL", quantity |-> 10]>>)]}
      [] OTHER ->
            {[timestamp |-> None]}

\* timestamps the bridge may put on the envelope: none, the instant a retained
\* message was first published (the start of the session), or text that is no date
EnvelopeTimestamps(clock) == {None, Some(Iso(0)), Some(NotADate)}

Malformed == [malformed |-> TRUE]

\* the topics the feed publishes on in the specifications of the trading page
FeedTopics == {"trader/services/heartbeat", "trader/services/engine",
               "trader/portfolio/summary"}

\* the data frames: every feed topic with its payloads and the envelope
\* timestamps, and heartbeats whose envelope timestamp is the empty string
DataFrames(clock) ==
    {[type |-> "mqtt", topic |-> Some(tp), payload |-> Some(pl), timestamp |-> ts] :
        tp \in FeedTopics, pl \in UNION {Payloads(t) : t \in FeedTopics},
        ts \in EnvelopeTimestamps(clock)}
    \cup {[type |-> "mqtt", topic |-> Some("trader/services/heartbeat"),
           payload |-> Some(pl), timestamp |-> Some([text |-> ""])] :
            pl \in Payloads("trader/services/heartbeat")}

OtherFrames ==
    { [type |-> "pong", topic |-> None, payload |-> None, timestamp |-> None],
      [type |-> "mqtt", topic |-> Some("trader/new/topic"),
       payload |-> Some([timestamp |-> None]), timestamp |-> None],
      [type |-> "mqtt", topic |-> Some("constructor"),
       payload |-> Some([timestamp |-> None]), timestamp |-> None],
      [type |-> "mqtt", topic |-> Some("valueOf"),
       payload |-> Some([timestamp |-> None]), timestamp |-> None],
      [type |-> "mqtt", topic |-> Some("trader/services/engine"),
       payload |-> None, timestamp |-> None],
      [type |-> "mqtt", topic |-> Some("trader/services/heartbeat"),
       payload |-> Some([number |-> 0]), timestamp |-> Some(Iso(0))],
      [type |-> "mqtt", topic |-> Some(""),
       payload |-> Some([timestamp |-> None]), timestamp |-> None] }

\* the frames a socket may deliver; the timestamps on offer do not depend on
\* the clock
AllFrames ==
    {f \in DataFrames(0) : Val(f.payload) \in Payloads(Val(f.topic))}
        \cup OtherFrames \cup {Malformed}

Frames(clock) == AllFrames

----------------------------------------------------------------------------
(* Trading store: the handlers of createTradingStore *)

\* startStaleCheck
startStaleCheck ==
    IF t_staleCheckTimer
    THEN UNCHANGED <<t_staleCheckTimer, t_intervals>>
    ELSE /\ t_staleCheckTimer' = TRUE
         /\ t_intervals' = t_intervals + 1

\* stopStaleCheck
stopStaleCheck ==
    IF t_staleCheckTimer
    THEN /\ t_staleCheckTimer' = FALSE
         /\ t_intervals' = t_intervals - 1
    ELSE UNCHANGED <<t_staleCheckTimer, t_intervals>>

\* connect(): the body shared by the pages' call and the reconnect timer;
\* throws: new WebSocket(url) throws, and the catch block records it
t_connect(throws) ==
    IF IsOpen(t_sockets, t_ws)
    THEN UNCHANGED <<t_state, traderStatus, t_sockets, t_ws>>
    ELSE IF throws
    THEN /\ t_state' = [t_state EXCEPT !.error = Some("Failed to connect")]
         /\ traderStatus' = traderStatusOf(t_state', now)
         /\ UNCHANGED <<t_sockets, t_ws>>
    ELSE /\ t_state' = [t_state EXCEPT !.error = None]
         /\ traderStatus' = traderStatusOf(t_state', now)
         /\ t_sockets' = Append(t_sockets, NewSocket)
         /\ t_ws' = Len(t_sockets) + 1

\* connect() can run: it returns at once, it constructs no socket, or there is
\* room for one more socket
t_canConnect(throws) ==
    IsOpen(t_sockets, t_ws) \/ throws \/ Len(t_sockets) < MaxSockets

\* ws.onopen, run on `socks` (the sockets once the browser has opened one)
t_onopen(socks) ==
    /\ t_state' = [t_state EXCEPT !.connected = TRUE, !.error = None]
    /\ traderStatus' = traderStatusOf(t_state', now)
    /\ startStaleCheck
    /\ t_sockets' = IF t_ws = 0 THEN socks ELSE SendOn(socks, t_ws, "subscribe")

\* ws.onerror
t_onerror ==
    /\ t_state' = [t_state EXCEPT !.error = Some("Connection error")]
    /\ traderStatus' = traderStatusOf(t_state', now)

\* (mutant) ws.onclose that schedules a reconnect without looking at reconnectTimer
t_onclose_alwaysSchedules ==
    /\ t_state' = [t_state EXCEPT !.connected = FALSE]
    /\ traderStatus' = traderStatusOf(t_state', now)
    /\ t_reconnectTimer' = TRUE
    /\ t_timeouts' = t_timeouts + 1

\* (mutant) ws.onclose that also drops the data: set(initialState)
t_onclose_resetsState ==
    /\ t_state' = initialState
    /\ traderStatus' = traderStatusOf(t_state', now)
    /\ IF ~t_reconnectTimer
       THEN /\ t_reconnectTimer' = TRUE
            /\ t_timeouts' = t_timeouts + 1
       ELSE UNCHANGED <<t_reconnectTimer, t_timeouts>>

\* ws.onclose
t_onclose ==
    /\ t_state' = [t_state EXCEPT !.connected = FALSE]
    /\ traderStatus' = traderStatusOf(t_state', now)
    /\ IF ~t_reconnectTimer
       THEN /\ t_reconnectTimer' = TRUE
            /\ t_timeouts' = t_timeouts + 1
       ELSE UNCHANGED <<t_reconnectTimer, t_timeouts>>

\* ws.onmessage: JSON.parse, then handleMessage; a parse failure and an
\* exception of handleMessage are caught
t_onmessage(frame) ==
    IF frame = Malformed \/ ~accepted(frame) \/ handlerThrows(frame)
    THEN UNCHANGED <<t_state, traderStatus>>
    ELSE /\ t_state' = handleMessage(t_state, frame, now)
         /\ traderStatus' = traderStatusOf(t_state', now)

\* disconnect()
t_disconnect ==
    /\ stopStaleCheck
    /\ IF t_reconnectTimer
       THEN /\ t_reconnectTimer' = FALSE
            /\ t_timeouts' = t_timeouts - 1
       ELSE UNCHANGED <<t_reconnectTimer, t_timeouts>>
    /\ IF t_ws # 0
       THEN /\ t_sockets' = CloseSocket(t_sockets, t_ws)
            /\ t_ws' = 0
       ELSE UNCHANGED <<t_sockets, t_ws>>
    /\ t_state' = storeInitialState
    /\ traderStatus' = traderStatusOf(t_state', now)

\* (mutant) a sendCommand that reports success whether or not it could send
sendCommand_alwaysTrue ==
    /\ t_returned' = Some(TRUE)
    /\ IF IsOpen(t_sockets, t_ws)
       THEN t_sockets' = SendOn(t_sockets, t_ws, "publish")
       ELSE UNCHANGED t_sockets

\* sendCommand(topic, payload): the frame sent, if any, and the value returned
sendCommand ==
    IF IsOpen(t_sockets, t_ws)
    THEN /\ t_sockets' = SendOn(t_sockets, t_ws, "publish")
         /\ t_returned' = Some(TRUE)
    ELSE /\ UNCHANGED t_sockets
         /\ t_returned' = Some(FALSE)

----------------------------------------------------------------------------
(* Trading store: the steps *)

Trading == stream \in {"trading", "legacy"} /\ t_failing = 0

\* a page calls trading.connect()
T_connect ==
    /\ Trading
    /\ \E throws \in BOOLEAN : t_canConnect(throws) /\ t_connect(throws)
    /\ t_torn' = FALSE
    /\ UNCHANGED <<t_reconnectTimer, t_timeouts, t_staleCheckTimer, t_intervals,
                   t_failing, now, stream,
                   f_power, p_vars, r_vars, w_vars, d_vars, d_events>>

\* a page calls trading.disconnect()
T_disconnect ==
    /\ Trading
    /\ t_disconnect
    /\ t_torn' = TRUE
    /\ UNCHANGED <<t_failing, now, stream,
                   f_power, p_vars, r_vars, w_vars, d_vars, d_events>>

\* reset: () => set(initialState); the socket, the timers and the interval
\* are left as they are
T_reset ==
    /\ Trading
    /\ t_state' = storeInitialState
    /\ traderStatus' = traderStatusOf(t_state', now)
    /\ UNCHANGED <<t_ws, t_reconnectTimer, t_staleCheckTimer, t_sockets, t_timeouts,
                   t_intervals, t_failing, t_torn, now, stream,
                   f_power, p_vars, r_vars, w_vars, d_vars, d_events>>

\* the open event of socket i
T_open(i) ==
    /\ Trading
    /\ t_sockets[i].readyState = "CONNECTING"
    /\ t_onopen([t_sockets EXCEPT ![i].readyState = "OPEN"])
    /\ UNCHANGED <<t_ws, t_reconnectTimer, t_timeouts, t_failing, t_torn,
                   now, stream,
                   f_power, p_vars, r_vars, w_vars, d_vars, d_events>>

\* the error event of socket i: the connection has failed, the close event follows
T_error(i) ==
    /\ Trading
    /\ t_sockets[i].readyState \in {"CONNECTING", "OPEN", "CLOSING"}
    /\ t_sockets' = Shut(t_sockets, i)
    /\ t_failing' = i
    /\ t_onerror
    /\ UNCHANGED <<t_ws, t_reconnectTimer, t_timeouts, t_staleCheckTimer,
                   t_intervals, t_torn, now, stream,
                   f_power, p_vars, r_vars, w_vars, d_vars, d_events>>

\* the close event of socket i: after its error event, or a clean close
T_close(i) ==
    /\ stream \in {"trading", "legacy"}
    /\ \/ t_failing = i
       \/ t_failing = 0 /\ t_sockets[i].readyState \in {"OPEN", "CLOSING"}
    /\ t_sockets' = Shut(t_sockets, i)
    /\ t_failing' = 0
    /\ t_onclose
    /\ UNCHANGED <<t_ws, t_staleCheckTimer, t_intervals, t_torn, now, stream,
                   f_power, p_vars, r_vars, w_vars, d_vars, d_events>>

\* a message event of socket i
T_message(i, frame) ==
    /\ Trading
    /\ t_sockets[i].readyState = "OPEN"
    /\ t_onmessage(frame)
    /\ UNCHANGED <<t_ws, t_reconnectTimer, t_staleCheckTimer, t_sockets, t_timeouts,
                   t_intervals, t_failing, t_torn, now, stream,
                   f_power, p_vars, r_vars, w_vars, d_vars, d_events>>

\* the reconnect timeout fires: reconnectTimer = null; connect()
T_reconnect ==
    /\ Trading
    /\ t_timeouts > 0
    /\ t_timeouts' = t_timeouts - 1
    /\ t_reconnectTimer' = FALSE
    /\ \E throws \in BOOLEAN : t_canConnect(throws) /\ t_connect(throws)
    /\ UNCHANGED <<t_staleCheckTimer, t_intervals, t_failing, t_torn, now, stream,
                   f_power, p_vars, r_vars, w_vars, d_vars, d_events>>

\* the stale-check interval fires
T_staleCheck ==
    /\ Trading
    /\ t_intervals > 0
    /\ t_state' = staleCheck(t_state, now)
    /\ traderStatus' = traderStatusOf(t_state', now)
    /\ UNCHANGED <<t_ws, t_reconnectTimer, t_staleCheckTimer, t_sockets, t_timeouts,
                   t_intervals, t_failing, t_torn, now, stream,
                   f_power, p_vars, r_vars, w_vars, d_vars, d_events>>

\* the page issues a control command (toggleStockTrading, closePosition, ...)
T_command ==
    /\ Trading
    /\ t_ws # 0 => Len(t_sockets[t_ws].sent) <= MaxSent
    /\ sendCommand
    /\ UNCHANGED <<t_state, traderStatus, t_ws, t_reconnectTimer, t_staleCheckTimer,
                   t_timeouts, t_intervals, t_failing, t_torn, now, stream,
                   f_power, servicesHealth, r_vars, w_vars, d_vars, d_events>>

\* time passes
AdvanceClock ==
    /\ Trading
    /\ now + ClockStep <= MaxClockSteps * ClockStep
    /\ now' = now + ClockStep
    /\ UNCHANGED <<stream, f_power, p_vars, r_vars, t_vars, w_vars, d_vars, d_events>>

----------------------------------------------------------------------------
(* Devices store: createDevicesStore.  The Map of devices is the sequence of
   its values in insertion order (each value carries its key, id). *)

Attributes == {"switch", "level", "power", "temperature", "lock", "heatingSetpoint"}

\* an attribute bag (device.state), or the attributes a message carries:
\* None is an attribute that is not there
NoAttributes == [a \in Attributes |-> None]

d_initialState ==
    [devices |-> <<>>, loading |-> FALSE, error |-> None, lastUpdated |-> None]

\* Map.prototype.has / the position of key id
MapIndex(m, id) ==
    IF \E k \in 1..Len(m) : m[k].id = id
    THEN CHOOSE k \in 1..Len(m) : m[k].id = id
    ELSE 0

\* Map.prototype.set: an existing key keeps its position, a new key goes last
MapSet(m, id, device) ==
    IF MapIndex(m, id) # 0
    THEN [m EXCEPT ![MapIndex(m, id)] = device]
    ELSE Append(m, device)

\* for (const [, device] of devices) if (device.label === key || device.name === key):
\* the position of the first match, 0 if there is none
FindDevice(m, key) ==
    LET matches == {k \in 1..Len(m) : m[k].label = Some(key) \/ m[k].name = key}
    IN  IF matches = {} THEN 0
        ELSE CHOOSE k \in matches : \A j \in matches : k <= j

\* { ...device.state, ...attributes }
MergeAttributes(bag, attributes) ==
    [a \in Attributes |-> IF attributes[a] # None THEN attributes[a] ELSE bag[a]]

\* load(): the update before the request
loadStart(state) == [state EXCEPT !.loading = TRUE, !.error = None]

\* load(): the update once getDevices() has resolved with response.data
loadResolved(state, data, clock) ==
    [state EXCEPT !.devices = data, !.loading = FALSE, !.lastUpdated = Some(clock)]

\* load(): the update once getDevices() has rejected with err:
\* error?.detail || 'Failed to load devices'
loadRejected(state, err) ==
    [state EXCEPT !.loading = FALSE,
                  !.error = IF err # None /\ Truthy(Val(err).detail)
                            THEN Val(err).detail
                            ELSE Some(Text("Failed to load devices"))]

\* (mutant) a device_state update that adds the device it does not find
updateDeviceState_addsDevice(state, deviceId, attribute, value) ==
    LET k == FindDevice(state.devices, deviceId)
    IN  IF k # 0
        THEN [state EXCEPT !.devices[k].state[attribute] = Some(value)]
        ELSE [state EXCEPT !.devices =
                Append(@, [id |-> 0, name |-> deviceId, label |-> None,
                           type |-> "Generic Z-Wave Lock", capabilities |-> None,
                           is_favorite |-> FALSE,
                           switch_state |-> None, level |-> None,
                           heating_setpoint |-> None,
                           state |-> [NoAttributes EXCEPT ![attribute] = Some(value)]])]

\* updateDeviceState(deviceId, attribute, value)
updateDeviceState(state, deviceId, attribute, value) ==
    LET k == FindDevice(state.devices, deviceId)
    IN  IF k # 0
        THEN [state EXCEPT !.devices[k].state[attribute] = Some(value)]
        ELSE state

\* setInitialState(deviceStates): deviceStates is the sequence of the entries
\* <<deviceKey, attributes>> of the record, in the order of Object.entries
RECURSIVE setInitialStateFrom(_, _, _)
setInitialStateFrom(devices, deviceStates, n) ==
    IF n > Len(deviceStates) THEN devices
    ELSE LET k == FindDevice(devices, deviceStates[n][1])
             merged == IF k = 0 THEN devices
                       ELSE [devices EXCEPT ![k].state =
                                MergeAttributes(@, deviceStates[n][2])]
         IN  setInitialStateFrom(merged, deviceStates, n + 1)

setInitialState(state, deviceStates) ==
    [state EXCEPT !.devices = setInitialStateFrom(state.devices, deviceStates, 1)]

\* updateDevice(device)
updateDevice(state, device) ==
    [state EXCEPT !.devices = MapSet(state.devices, device.id, device)]

\* (mutant) an optimistic switch update that writes the attribute bag only
setDeviceSwitch_bagOnly(state, deviceId, switchState) ==
    LET k == MapIndex(state.devices, deviceId)
    IN  IF k # 0
        THEN [state EXCEPT !.devices[k].state.switch = Some(Text(switchState))]
        ELSE state

\* setDeviceSwitch(deviceId, switchState)
setDeviceSwitch(state, deviceId, switchState) ==
    LET k == MapIndex(state.devices, deviceId)
    IN  IF k # 0
        THEN [state EXCEPT !.devices[k].switch_state = Some(switchState),
                           !.devices[k].state.switch = Some(Text(switchState))]
        ELSE state

\* setDeviceLevel(deviceId, level)
setDeviceLevel(state, deviceId, level) ==
    LET k == MapIndex(state.devices, deviceId)
        switch == IF level > 0 THEN "on" ELSE "off"
    IN  IF k # 0
        THEN [state EXCEPT !.devices[k].level = Some(Num(level)),
                           !.devices[k].switch_state = Some(switch),
                           !.devices[k].state.level = Some(Num(level)),
                           !.devices[k].state.switch = Some(Text(switch))]
        ELSE state

\* the device card: let level = $derived(...)
levelOf(device) ==
    IF IsNumber(device.level) THEN Some(Val(device.level).number)
    ELSE IF IsNumber(device.state.level) THEN Some(Val(device.state.level).number)
    ELSE None

\* the device card: let isOn = $derived(...)
isOn(device) ==
    \/ device.switch_state = Some("on")
    \/ device.state.switch = Some(Text("on"))
    \/ device.state.switch = Some(Bool(TRUE))
    \/ (levelOf(device) # None /\ Val(levelOf(device)) > 0)

----------------------------------------------------------------------------
(* Device websocket store: the handlers of createWebSocketStore *)

w_initialState == [connected |-> FALSE, error |-> None, reconnecting |-> FALSE]

\* connect(): the body shared by the pages' call and the reconnect timer
w_connect(throws) ==
    IF IsOpen(w_sockets, w_ws)
    THEN UNCHANGED <<w_state, w_sockets, w_ws>>
    ELSE IF throws
    THEN /\ w_state' = [w_state EXCEPT !.error = Some("Failed to connect"),
                                      !.reconnecting = FALSE]
         /\ UNCHANGED <<w_sockets, w_ws>>
    ELSE /\ w_state' = [w_state EXCEPT !.error = None, !.reconnecting = FALSE]
         /\ w_sockets' = Append(w_sockets, NewSocket)
         /\ w_ws' = Len(w_sockets) + 1

w_canConnect(throws) ==
    IsOpen(w_sockets, w_ws) \/ throws \/ Len(w_sockets) < MaxSockets

\* ws.onopen: pingInterval = setInterval(...), whatever pingInterval held
w_onopen ==
    /\ w_state' = [w_state EXCEPT !.connected = TRUE, !.error = None,
                                  !.reconnecting = FALSE]
    /\ w_pingInterval' = TRUE
    /\ w_intervals' = w_intervals + 1

\* ws.onerror
w_onerror ==
    w_state' = [w_state EXCEPT !.error = Some("Connection error")]

\* ws.onclose
w_onclose ==
    /\ IF w_pingInterval
       THEN /\ w_pingInterval' = FALSE
            /\ w_intervals' = w_intervals - 1
       ELSE UNCHANGED <<w_pingInterval, w_intervals>>
    /\ IF ~w_reconnectTimer
       THEN /\ w_state' = [w_state EXCEPT !.connected = FALSE, !.reconnecting = TRUE]
            /\ w_reconnectTimer' = TRUE
            /\ w_timeouts' = w_timeouts + 1
       ELSE /\ w_state' = [w_state EXCEPT !.connected = FALSE]
            /\ UNCHANGED <<w_reconnectTimer, w_timeouts>>

\* the callback of the ping interval
w_ping ==
    IF IsOpen(w_sockets, w_ws)
    THEN w_sockets' = SendOn(w_sockets, w_ws, "ping")
    ELSE UNCHANGED w_sockets

\* disconnect()
w_disconnect ==
    /\ IF w_reconnectTimer
       THEN /\ w_reconnectTimer' = FALSE
            /\ w_timeouts' = w_timeouts - 1
       ELSE UNCHANGED <<w_reconnectTimer, w_timeouts>>
    /\ IF w_pingInterval
       THEN /\ w_pingInterval' = FALSE
            /\ w_intervals' = w_intervals - 1
       ELSE UNCHANGED <<w_pingInterval, w_intervals>>
    /\ IF w_ws # 0
       THEN /\ w_sockets' = CloseSocket(w_sockets, w_ws)
            /\ w_ws' = 0
       ELSE UNCHANGED <<w_sockets, w_ws>>
    /\ w_state' = w_initialState

----------------------------------------------------------------------------
(* Device websocket store: the steps *)

Device == stream = "device" /\ w_failing = 0

\* a page calls websocket.connect()
W_connect ==
    /\ Device
    /\ \E throws \in BOOLEAN : w_canConnect(throws) /\ w_connect(throws)
    /\ w_torn' = FALSE
    /\ UNCHANGED <<w_reconnectTimer, w_timeouts, w_pingInterval, w_intervals,
                   w_failing, now, stream, f_power, p_vars, r_vars, t_vars, d_vars>>

\* the open event of socket i
W_open(i) ==
    /\ Device
    /\ w_sockets[i].readyState = "CONNECTING"
    /\ w_sockets' = [w_sockets EXCEPT ![i].readyState = "OPEN"]
    /\ w_onopen
    /\ UNCHANGED <<w_ws, w_reconnectTimer, w_timeouts, w_failing, w_torn,
                   now, stream, f_power, p_vars, r_vars, t_vars, d_vars>>

\* the error event of socket i: the connection has failed, the close event follows
W_error(i) ==
    /\ Device
    /\ w_sockets[i].readyState \in {"CONNECTING", "OPEN", "CLOSING"}
    /\ w_sockets' = Shut(w_sockets, i)
    /\ w_failing' = i
    /\ w_onerror
    /\ UNCHANGED <<w_ws, w_reconnectTimer, w_timeouts, w_pingInterval, w_intervals,
                   w_torn, now, stream, f_power, p_vars, r_vars, t_vars, d_vars>>

\* the close event of socket i: after its error event, or a clean close
W_close(i) ==
    /\ stream = "device"
    /\ \/ w_failing = i
       \/ w_failing = 0 /\ w_sockets[i].readyState \in {"OPEN", "CLOSING"}
    /\ w_sockets' = Shut(w_sockets, i)
    /\ w_failing' = 0
    /\ w_onclose
    /\ UNCHANGED <<w_ws, w_torn, now, stream, f_power, p_vars, r_vars, t_vars, d_vars>>

\* the reconnect timeout fires: reconnectTimer = null; connect()
W_reconnect ==
    /\ Device
    /\ w_timeouts > 0
    /\ w_timeouts' = w_timeouts - 1
    /\ w_reconnectTimer' = FALSE
    /\ \E throws \in BOOLEAN : w_canConnect(throws) /\ w_connect(throws)
    /\ UNCHANGED <<w_pingInterval, w_intervals, w_failing, w_torn, now, stream, f_power, p_vars, r_vars, t_vars, d_vars>>

\* a ping interval fires
W_ping ==
    /\ Device
    /\ w_intervals > 0
    /\ w_ws # 0 => Len(w_sockets[w_ws].sent) < MaxSent
    /\ w_ping
    /\ UNCHANGED <<w_state, w_ws, w_reconnectTimer, w_pingInterval, w_timeouts,
                   w_intervals, w_failing, w_torn, now, stream, f_power, p_vars, r_vars, t_vars, d_vars>>

----------------------------------------------------------------------------
(* Device stream: inbound frames, handleMessage of createWebSocketStore *)

Switches == {"on", "off"}
Levels == {0, 50}
Setpoints == {20}

\* String.prototype.includes, for the type names of the model and the words
\* the card looks for in them
Includes(text, part) ==
    part \in CASE text = "Generic Zigbee Dimmer" -> {"Dimmer"}
               [] text = "Generic Z-Wave Lock" -> {"Lock"}
               [] text = "Virtual Thermostat" -> {"Thermostat"}

\* device.capabilities?.includes(capability)
HasCapability(device, capability) ==
    device.capabilities # None /\ capability \in Val(device.capabilities)

\* the devices the API serves: a dimmer, a thermostat, a lock
Lamp(switch, favorite) ==
    [id |-> 1, name |-> "lamp", label |-> None, type |-> "Generic Zigbee Dimmer",
     capabilities |-> Some({"Switch", "SwitchLevel"}), is_favorite |-> favorite,
     switch_state |-> Some(switch), level |-> None, heating_setpoint |-> None,
     state |-> [NoAttributes EXCEPT
                  !.switch = Some(Text(switch)),
                  !.level = Some(Num(IF switch = "on" THEN 100 ELSE 0))]]

Hall(favorite) ==
    [id |-> 2, name |-> "hall-thermostat", label |-> Some("Hall"),
     type |-> "Virtual Thermostat", capabilities |-> None, is_favorite |-> favorite,
     switch_state |-> None, level |-> None, heating_setpoint |-> None,
     state |-> [NoAttributes EXCEPT !.temperature = Some(Num(19)),
                                    !.heatingSetpoint = Some(Num(21))]]

Door(favorite) ==
    [id |-> 3, name |-> "door", label |-> None, type |-> "Generic Z-Wave Lock",
     capabilities |-> Some({"Lock"}), is_favorite |-> favorite,
     switch_state |-> None, level |-> None, heating_setpoint |-> None,
     state |-> [NoAttributes EXCEPT !.lock = Some(Text("locked"))]]

\* response.data of getDevices(): the devices in the order of their ids, the
\* lamp being the user's favorite; the lamp is missing from the list when it is
\* hidden
Inventories ==
    {<<Lamp(sw, TRUE), Hall(FALSE), Door(FALSE)>> : sw \in Switches}
    \cup {<<Hall(FALSE), Door(FALSE)>>}

\* response.data of getDevice(id) and of the PATCH of device id, the server
\* holding the favorite flag given
ServerDevice(id, favorite) ==
    CASE id = 1 -> {Lamp(sw, favorite) : sw \in Switches}
      [] id = 2 -> {Hall(favorite)}
      [] id = 3 -> {Door(favorite)}

\* the ids of the devices the API serves
CardIds == {1, 2, 3}

DeviceStateFrame(deviceId, attribute, value) ==
    [type |-> "device_state",
     payload |-> [device_id |-> deviceId, attribute |-> attribute, value |-> value]]

InitialStateFrame(deviceStates) ==
    [type |-> "initial_state", payload |-> deviceStates]

\* the frames the feed delivers: attribute reports for the lamp (its switch as
\* text and as a boolean, its level as text), the thermostat and a device the client
\* has not loaded; snapshots; keepalive replies; a type the client does not
\* know; text that is not JSON
DeviceFrames ==
    { DeviceStateFrame("lamp", "switch", Text("on")),
      DeviceStateFrame("lamp", "switch", Text("off")),
      DeviceStateFrame("lamp", "switch", Bool(TRUE)),
      DeviceStateFrame("lamp", "level", Text("50")),
      DeviceStateFrame("lamp", "power", Num(12)),
      DeviceStateFrame("Hall", "temperature", Num(22)),
      DeviceStateFrame("ghost", "switch", Text("on")),
      InitialStateFrame(<< <<"lamp", [NoAttributes EXCEPT !.switch = Some(Text("off"))]>>,
                           <<"ghost", [NoAttributes EXCEPT !.switch = Some(Text("on"))]>> >>),
      InitialStateFrame(<< <<"Hall", [NoAttributes EXCEPT !.temperature = Some(Num(22))]>>,
                           <<"lamp", [NoAttributes EXCEPT !.power = Some(Num(12))]>> >>),
      [type |-> "pong", payload |-> None],
      [type |-> "hello", payload |-> None],
      Malformed }

\* handleMessage(message) of the websocket store, as a function of the devices state
w_handleMessage(state, message) ==
    CASE message.type = "initial_state" -> setInitialState(state, message.payload)
      [] message.type = "device_state" ->
            updateDeviceState(state, message.payload.device_id,
                              message.payload.attribute, message.payload.value)
      [] OTHER -> state

\* (mutant) a message handler that stores the parse failure as the store's error
w_onmessage_surfacesParseError(frame) ==
    IF frame = Malformed
    THEN /\ w_state' = [w_state EXCEPT !.error = Some("Failed to parse")]
         /\ UNCHANGED d_state
    ELSE /\ d_state' = w_handleMessage(d_state, frame)
         /\ UNCHANGED w_state

\* ws.onmessage: JSON.parse, then handleMessage; a parse failure is caught
w_onmessage(frame) ==
    /\ UNCHANGED w_state
    /\ IF frame = Malformed
       THEN UNCHANGED d_state
       ELSE d_state' = w_handleMessage(d_state, frame)

\* the power of the lamp after the feed has delivered the frame, old being the
\* power it had reported before
ReportedPower(frame, old) ==
    IF frame = Malformed THEN old
    ELSE IF frame.type = "device_state"
        THEN IF frame.payload.device_id = "lamp" /\ frame.payload.attribute = "power"
             THEN Some(frame.payload.value) ELSE old
    ELSE IF frame.type = "initial_state"
        THEN LET entries == {n \in 1..Len(frame.payload) :
                                /\ frame.payload[n][1] = "lamp"
                                /\ frame.payload[n][2].power # None}
             IN  IF entries = {} THEN old
                 ELSE frame.payload[CHOOSE n \in entries : TRUE][2].power
    ELSE old

\* a frame arrives on socket i
W_message(i, frame) ==
    /\ Device
    /\ w_sockets[i].readyState = "OPEN"
    /\ w_onmessage(frame)
    /\ f_power' = ReportedPower(frame, f_power)
    /\ UNCHANGED <<w_ws, w_reconnectTimer, w_pingInterval, w_sockets, w_timeouts,
                   w_intervals, w_failing, w_torn, now, stream, p_vars, r_vars, t_vars,
                   d_loads, activeTab, c_loading, c_calls, c_refresh, c_fetches,
                   c_console>>

----------------------------------------------------------------------------
(* The dashboard page, the devices store and the device cards: the steps.

   The page shows the cards of the active tab unless $devices.loading
   ({#if loading} ... {:else} <DeviceList .../>), one card per device, keyed by
   device.id.  `loading` is a variable of the card instance: a card that is
   created starts with loading = false, and what a destroyed card was awaiting
   still completes, writing the loading of the instance that is gone.  A call
   in flight records whether the card that issued it is still on the page
   (mine). *)

d_init ==
    /\ d_state = d_initialState
    /\ d_loads = 0
    /\ activeTab = None
    /\ c_loading = [id \in CardIds |-> FALSE]
    /\ c_calls = <<>>
    /\ c_refresh = [id \in CardIds |-> 0]
    /\ c_fetches = [id \in CardIds |-> 0]
    /\ c_console = None
    /\ f_power = None
    /\ d_events = 0

\* device id is in the devices map
Loaded(id) == MapIndex(d_state.devices, id) # 0

\* the device with key id in the devices map
Shown(id) == d_state.devices[MapIndex(d_state.devices, id)]

\* the dashboard shows a card for device id: the page is mounted (tab is not
\* None), the store is not loading, and the list of the active tab
\* ($favoriteDevices, $devicesList, $devicesByRoom) has the device
RenderedIn(state, tab, id) ==
    /\ tab # None
    /\ ~state.loading
    /\ MapIndex(state.devices, id) # 0
    /\ Val(tab) = "favorites" => state.devices[MapIndex(state.devices, id)].is_favorite

Rendered(id) == RenderedIn(d_state, activeTab, id)

\* the cards that are on the page before and after the step
Staying == {id \in CardIds : Rendered(id) /\ RenderedIn(d_state', activeTab', id)}

\* the cards once the page has rendered again: a card that stays keeps its
\* loading and its call, every other card's call is left to complete alone and
\* a new card starts with loading = false
CardsAfter(loading, calls, staying) ==
    /\ c_loading' = [id \in CardIds |-> loading[id] /\ id \in staying]
    /\ c_calls' = [k \in 1..Len(calls) |->
                      [calls[k] EXCEPT !.mine = @ /\ calls[k].id \in staying]]

\* the dashboard is mounted: websocket.connect(), then devices.load() up to its
\* await, in one task; activeTab starts as 'favorites'
W_mount ==
    /\ Device
    /\ d_loads < MaxLoads
    /\ \E throws \in BOOLEAN : w_canConnect(throws) /\ w_connect(throws)
    /\ w_torn' = FALSE
    /\ d_state' = loadStart(d_state)
    /\ d_loads' = d_loads + 1
    /\ activeTab' = Some("favorites")
    /\ CardsAfter(c_loading, c_calls, {})
    /\ f_power' = None
    /\ UNCHANGED <<w_reconnectTimer, w_timeouts, w_pingInterval, w_intervals,
                   w_failing, c_refresh, c_fetches, c_console,
                   now, stream, p_vars, r_vars, t_vars>>

\* a page that called connect() is destroyed: websocket.disconnect(); the
\* cards go with the dashboard
W_disconnect ==
    /\ Device
    /\ w_disconnect
    /\ w_torn' = TRUE
    /\ activeTab' = None
    /\ CardsAfter(c_loading, c_calls, {})
    /\ UNCHANGED <<w_failing, now, stream, f_power, p_vars, r_vars, t_vars,
                   d_state, d_loads, c_refresh, c_fetches, c_console>>

\* the tabs of the dashboard the user picks: 'favorites' lists $favoriteDevices,
\* 'all' lists $devicesList, 'rooms' lists $devicesByRoom room by room (the
\* devices of the model have no room: one list, 'Unassigned', of every device)
Tabs == {"favorites", "all", "rooms"}

\* the user picks a tab of the dashboard: the list of the other tab replaces
\* the one shown
P_tab(tab) ==
    /\ Device
    /\ activeTab # None
    /\ activeTab' = Some(tab)
    /\ IF activeTab = Some(tab)
       THEN UNCHANGED <<c_loading, c_calls>>
       ELSE CardsAfter(c_loading, c_calls, {})
    /\ UNCHANGED <<d_state, d_loads, c_refresh, c_fetches, c_console,
                   now, stream, f_power, p_vars, r_vars, t_vars, w_vars>>

\* a page calls devices.load() (the dashboard's sync button, the kiosk)
D_load ==
    /\ Device
    /\ d_loads < MaxLoads
    /\ d_state' = loadStart(d_state)
    /\ d_loads' = d_loads + 1
    /\ CardsAfter(c_loading, c_calls, {})
    /\ f_power' = None
    /\ UNCHANGED <<activeTab, c_refresh, c_fetches, c_console,
                   now, stream, p_vars, r_vars, t_vars, w_vars>>

\* getDevices() resolves with response.data
D_loadResolve(data) ==
    /\ Device
    /\ d_loads > 0
    /\ d_state' = loadResolved(d_state, data, now)
    /\ d_loads' = d_loads - 1
    /\ UNCHANGED activeTab
    /\ CardsAfter(c_loading, c_calls, Staying)
    /\ UNCHANGED <<c_refresh, c_fetches, c_console,
                   now, stream, f_power, p_vars, r_vars, t_vars, w_vars>>

\* what getDevices() rejects with: nothing, an object without detail, with an
\* empty detail, with a detail
Rejections ==
    {None, Some([detail |-> None]), Some([detail |-> Some(Text(""))]),
     Some([detail |-> Some(Text("Not authenticated"))])}

\* getDevices() rejects with err
D_loadReject(err) ==
    /\ Device
    /\ d_loads > 0
    /\ d_state' = loadRejected(d_state, err)
    /\ d_loads' = d_loads - 1
    /\ UNCHANGED activeTab
    /\ CardsAfter(c_loading, c_calls, Staying)
    /\ UNCHANGED <<c_refresh, c_fetches, c_console,
                   now, stream, f_power, p_vars, r_vars, t_vars, w_vars>>

\* devices.clearError(): the 'Fermer' button of the error message
D_clearError ==
    /\ Device
    /\ d_state' = [d_state EXCEPT !.error = None]
    /\ UNCHANGED <<d_loads, activeTab, c_loading, c_calls, c_refresh, c_fetches,
                   c_console, now, stream, f_power, p_vars, r_vars, t_vars, w_vars>>

\* devices.reset(): the store is set to its initial value; a getDevices() in
\* flight is not cancelled; the cards go with their devices
D_reset ==
    /\ Device
    /\ d_state' = d_initialState
    /\ UNCHANGED activeTab
    /\ CardsAfter(c_loading, c_calls, Staying)
    /\ f_power' = None
    /\ UNCHANGED <<d_loads, c_refresh, c_fetches, c_console,
                   now, stream, p_vars, r_vars, t_vars, w_vars>>

\* the card's type helpers
isSwitch(device) == HasCapability(device, "Switch") \/ Includes(device.type, "Switch")
isDimmer(device) == HasCapability(device, "SwitchLevel") \/ Includes(device.type, "Dimmer")
isSensor(device) ==
    \/ Includes(device.type, "Sensor")
    \/ Includes(device.type, "Motion")
    \/ Includes(device.type, "Temperature")
isThermostat(device) ==
    Includes(device.type, "Thermostat") \/ HasCapability(device, "Thermostat")
isLock(device) == Includes(device.type, "Lock") \/ HasCapability(device, "Lock")

\* device.heating_setpoint ?? device.state?.heatingSetpoint
heatingSetpoint(device) ==
    IF device.heating_setpoint # None THEN device.heating_setpoint
    ELSE device.state.heatingSetpoint

\* the controls the card's template offers for a device: the favorite button
\* on every card, then {#if isLock} {:else if isThermostat} {:else if isSensor}
\* {:else if isSwitch || isDimmer}
Offers(device, control) ==
    LET switching == /\ ~isLock(device) /\ ~isThermostat(device) /\ ~isSensor(device)
                     /\ (isSwitch(device) \/ isDimmer(device))
    IN  CASE control = "favorite" -> TRUE
          [] control = "lock" -> isLock(device)
          [] control = "setpoint" ->
                /\ ~isLock(device) /\ isThermostat(device)
                /\ heatingSetpoint(device) # None
          [] control = "toggle" -> switching
          [] control = "level" ->
                switching /\ isDimmer(device) /\ levelOf(device) # None

\* the confirmation fetches of device id that are pending or to come
Confirmations(id) ==
    c_refresh[id] + c_fetches[id]
        + Cardinality({k \in 1..Len(c_calls) :
                          c_calls[k].id = id /\ c_calls[k].op \in {"switch", "level"}})

\* a handler of the card of id, up to its await: if (loading) return;
\* loading = true; the command is sent
Issue(id, op, arg) ==
    IF c_loading[id]
    THEN UNCHANGED <<c_loading, c_calls>>
    ELSE /\ Len(c_calls) < MaxCalls
         /\ c_loading' = [c_loading EXCEPT ![id] = TRUE]
         /\ c_calls' = Append(c_calls, [id |-> id, op |-> op, arg |-> arg, mine |-> TRUE])

\* handleToggle
C_toggle(id) ==
    /\ Device /\ Rendered(id) /\ Offers(Shown(id), "toggle")
    /\ Confirmations(id) < MaxRefresh
    /\ Issue(id, "switch", Some(Text(IF isOn(Shown(id)) THEN "off" ELSE "on")))
    /\ UNCHANGED <<d_state, d_loads, activeTab, c_refresh, c_fetches, c_console,
                   now, stream, f_power, p_vars, r_vars, t_vars, w_vars>>

\* handleLevelChange
C_levelChange(id, newLevel) ==
    /\ Device /\ Rendered(id) /\ Offers(Shown(id), "level")
    /\ Confirmations(id) < MaxRefresh
    /\ Issue(id, "level", Some(Num(newLevel)))
    /\ UNCHANGED <<d_state, d_loads, activeTab, c_refresh, c_fetches, c_console,
                   now, stream, f_power, p_vars, r_vars, t_vars, w_vars>>

\* handleLockToggle
C_lockToggle(id) ==
    /\ Device /\ Rendered(id) /\ Offers(Shown(id), "lock")
    /\ Issue(id, IF Shown(id).state.lock = Some(Text("locked")) THEN "unlock" ELSE "lock",
             None)
    /\ UNCHANGED <<d_state, d_loads, activeTab, c_refresh, c_fetches, c_console,
                   now, stream, f_power, p_vars, r_vars, t_vars, w_vars>>

\* handleSetpointChange
C_setpointChange(id, newSetpoint) ==
    /\ Device /\ Rendered(id) /\ Offers(Shown(id), "setpoint")
    /\ Issue(id, "setpoint", Some(Num(newSetpoint)))
    /\ UNCHANGED <<d_state, d_loads, activeTab, c_refresh, c_fetches, c_console,
                   now, stream, f_power, p_vars, r_vars, t_vars, w_vars>>

\* handleFavoriteToggle
C_favoriteToggle(id) ==
    /\ Device /\ Rendered(id) /\ Offers(Shown(id), "favorite")
    /\ Issue(id, "favorite", Some(Bool(~Shown(id).is_favorite)))
    /\ UNCHANGED <<d_state, d_loads, activeTab, c_refresh, c_fetches, c_console,
                   now, stream, f_power, p_vars, r_vars, t_vars, w_vars>>

\* the calls in flight without call k
Without(calls, k) == SubSeq(calls, 1, k - 1) \o SubSeq(calls, k + 1, Len(calls))

\* finally { loading = false }, in the card instance that issued call k
Finally(loading, k) ==
    [loading EXCEPT ![c_calls[k].id] = @ /\ ~c_calls[k].mine]

\* lock / unlock / setHeatingSetpoint resolves: finally
C_settle(k) ==
    /\ Device
    /\ c_calls[k].op \in {"lock", "unlock", "setpoint"}
    /\ c_loading' = Finally(c_loading, k)
    /\ c_calls' = Without(c_calls, k)
    /\ UNCHANGED <<d_state, d_loads, activeTab, c_refresh, c_fetches, c_console,
                   now, stream, f_power, p_vars, r_vars, t_vars, w_vars>>

\* toggleFavorite resolves with response.data (None: a response without data):
\* the rest of the try block, then finally; then the page renders again
C_favoriteResolve(k, data) ==
    /\ Device
    /\ c_calls[k].op = "favorite"
    /\ d_state' = IF data # None THEN updateDevice(d_state, Val(data)) ELSE d_state
    /\ f_power' = IF data # None /\ Val(data).id = 1 THEN None ELSE f_power
    /\ UNCHANGED activeTab
    /\ CardsAfter(Finally(c_loading, k), Without(c_calls, k), Staying)
    /\ UNCHANGED <<d_loads, c_refresh, c_fetches, c_console,
                   now, stream, p_vars, r_vars, t_vars, w_vars>>

\* the error text of the handler's catch block
FailureText(op) ==
    CASE op = "switch"   -> "Failed to toggle device:"
      [] op = "level"    -> "Failed to set level:"
      [] op \in {"lock", "unlock"} -> "Failed to toggle lock:"
      [] op = "setpoint" -> "Failed to set temperature:"
      [] op = "favorite" -> "Failed to toggle favorite:"

\* the optimistic update of the call
Optimistic(state, call) ==
    IF call.op = "switch"
    THEN setDeviceSwitch(state, call.id, Val(call.arg).text)
    ELSE setDeviceLevel(state, call.id, Val(call.arg).number)

\* turnOn / turnOff / setLevel resolves: the rest of the try block, then finally
C_resolve(k) ==
    /\ Device
    /\ c_calls[k].op \in {"switch", "level"}
    /\ d_state' = Optimistic(d_state, c_calls[k])
    /\ c_refresh' = [c_refresh EXCEPT ![c_calls[k].id] = @ + 1]
    /\ c_loading' = Finally(c_loading, k)
    /\ c_calls' = Without(c_calls, k)
    /\ UNCHANGED <<d_loads, activeTab, c_fetches, c_console,
                   now, stream, f_power, p_vars, r_vars, t_vars, w_vars>>

\* (mutant) a catch block that takes the device back to 'off'
C_reject_rollsBack(k) ==
    /\ Device
    /\ d_state' = setDeviceSwitch(d_state, c_calls[k].id, "off")
    /\ c_console' = Some("Failed to toggle device:")
    /\ c_loading' = Finally(c_loading, k)
    /\ c_calls' = Without(c_calls, k)
    /\ UNCHANGED <<d_loads, activeTab, c_refresh, c_fetches,
                   now, stream, f_power, p_vars, r_vars, t_vars, w_vars>>

\* (mutant) a catch block with no finally after it: loading stays set
C_reject_keepsLoading(k) ==
    /\ Device
    /\ c_console' = Some(FailureText(c_calls[k].op))
    /\ c_calls' = Without(c_calls, k)
    /\ UNCHANGED <<d_state, d_loads, activeTab, c_loading, c_refresh, c_fetches,
                   now, stream, f_power, p_vars, r_vars, t_vars, w_vars>>

\* the command rejects: catch, then finally
C_reject(k) ==
    /\ Device
    /\ c_console' = Some(FailureText(c_calls[k].op))
    /\ c_loading' = Finally(c_loading, k)
    /\ c_calls' = Without(c_calls, k)
    /\ UNCHANGED <<d_state, d_loads, activeTab, c_refresh, c_fetches,
                   now, stream, f_power, p_vars, r_vars, t_vars, w_vars>>

\* the timeout of refreshDeviceAfterCommand fires: getDevice(device.id) is sent
C_refreshTimer(id) ==
    /\ Device
    /\ c_refresh[id] > 0
    /\ c_refresh' = [c_refresh EXCEPT ![id] = @ - 1]
    /\ c_fetches' = [c_fetches EXCEPT ![id] = @ + 1]
    /\ UNCHANGED <<d_state, d_loads, activeTab, c_loading, c_calls, c_console,
                   now, stream, f_power, p_vars, r_vars, t_vars, w_vars>>

\* getDevice() resolves with response.data (None: a response without data);
\* then the page renders again
C_fetchResolve(id, data) ==
    /\ Device
    /\ c_fetches[id] > 0
    /\ c_fetches' = [c_fetches EXCEPT ![id] = @ - 1]
    /\ d_state' = IF data # None THEN updateDevice(d_state, Val(data)) ELSE d_state
    /\ f_power' = IF data # None /\ Val(data).id = 1 THEN None ELSE f_power
    /\ UNCHANGED activeTab
    /\ CardsAfter(c_loading, c_calls, Staying)
    /\ UNCHANGED <<d_loads, c_refresh, c_console,
                   now, stream, p_vars, r_vars, t_vars, w_vars>>

\* getDevice() rejects: catch
C_fetchReject(id) ==
    /\ Device
    /\ c_fetches[id] > 0
    /\ c_fetches' = [c_fetches EXCEPT ![id] = @ - 1]
    /\ c_console' = Some("Failed to refresh device:")
    /\ UNCHANGED <<d_state, d_loads, activeTab, c_loading, c_calls, c_refresh,
                   now, stream, f_power, p_vars, r_vars, t_vars, w_vars>>

----------------------------------------------------------------------------
(* Specifications *)

\* no command has been issued, servicesHealth has no subscriber
NotRead == [total |-> 0]

p_init ==
    /\ t_returned = None
    /\ servicesHealth = NotRead

r_init ==
    /\ r_twin = initialState
    /\ r_clock = 0
    /\ r_log = <<>>

Init ==
    /\ stream \in {"trading", "device"}
    /\ now = 0
    /\ t_state = initialState
    /\ t_ws = 0
    /\ t_reconnectTimer = FALSE
    /\ t_staleCheckTimer = FALSE
    /\ t_sockets = <<>>
    /\ t_timeouts = 0
    /\ t_intervals = 0
    /\ t_failing = 0
    /\ t_torn = FALSE
    /\ traderStatus = traderStatusOf(initialState, 0)
    /\ w_state = w_initialState
    /\ w_ws = 0
    /\ w_reconnectTimer = FALSE
    /\ w_pingInterval = FALSE
    /\ w_sockets = <<>>
    /\ w_timeouts = 0
    /\ w_intervals = 0
    /\ w_failing = 0
    /\ w_torn = FALSE
    /\ d_init
    /\ p_init
    /\ r_init

\* the connection lifecycle of the trading store: any calls, any channel events
NextTradingConn ==
    \/ T_connect
    \/ T_disconnect
    \/ T_reset
    \/ \E i \in 1..Len(t_sockets) : T_open(i)
    \/ \E i \in 1..Len(t_sockets) : T_error(i)
    \/ \E i \in 1..Len(t_sockets) : T_close(i)
    \/ T_reconnect
    \/ T_staleCheck
    \/ T_command

\* the connection lifecycle of the device websocket store
NextDeviceConn ==
    \/ W_connect /\ UNCHANGED d_events
    \/ W_disconnect /\ UNCHANGED d_events
    \/ \E i \in 1..Len(w_sockets) : W_open(i) /\ UNCHANGED d_events
    \/ \E i \in 1..Len(w_sockets) : W_error(i) /\ UNCHANGED d_events
    \/ \E i \in 1..Len(w_sockets) : W_close(i) /\ UNCHANGED d_events
    \/ W_reconnect /\ UNCHANGED d_events
    \/ W_ping /\ UNCHANGED d_events

\* everything the trading store does
NextTrading ==
    \/ NextTradingConn
    \/ \E i \in 1..Len(t_sockets) : \E frame \in Frames(now) : T_message(i, frame)
    \/ AdvanceClock

\* Connection lifecycle of either store, with no inbound data and no passing time.
SpecConn == Init /\ [][NextTradingConn \/ NextDeviceConn]_vars

\* the trading page: onMount calls trading.connect().  The page is not on
\* screen: it was destroyed (disconnect()), or it has not been visited (no
\* socket and no failed connect())
T_mount ==
    /\ t_torn \/ (t_sockets = <<>> /\ t_state.error = None)
    /\ T_connect

\* The trading stream as the trading page drives it (connect on mount, disconnect
\* on destroy) with inbound frames, passing time and the stale check; one socket
\* fewer than MaxSockets, the data taking the room.
NextStale ==
    \/ T_mount /\ Len(t_sockets') <= MaxSockets - 1
    \/ T_disconnect
    \/ T_reset
    \/ \E i \in 1..Len(t_sockets) : T_open(i)
    \/ \E i \in 1..Len(t_sockets) : T_error(i)
    \/ \E i \in 1..Len(t_sockets) : T_close(i)
    \/ \E i \in 1..Len(t_sockets) : \E frame \in Frames(now) : T_message(i, frame)
    \/ T_reconnect /\ Len(t_sockets') <= MaxSockets - 1
    \/ T_staleCheck
    \/ T_command
    \/ AdvanceClock

SpecStale == Init /\ [][NextStale]_vars

\* the trading page over the older copy of the trading store
InitLegacy ==
    /\ stream = "legacy"
    /\ now = 0
    /\ t_state = legacy_initialState
    /\ t_ws = 0
    /\ t_reconnectTimer = FALSE
    /\ t_staleCheckTimer = FALSE
    /\ t_sockets = <<>>
    /\ t_timeouts = 0
    /\ t_intervals = 0
    /\ t_failing = 0
    /\ t_torn = FALSE
    /\ traderStatus = traderStatusOf(legacy_initialState, 0)
    /\ w_state = w_initialState
    /\ w_ws = 0
    /\ w_reconnectTimer = FALSE
    /\ w_pingInterval = FALSE
    /\ w_sockets = <<>>
    /\ w_timeouts = 0
    /\ w_intervals = 0
    /\ w_failing = 0
    /\ w_torn = FALSE
    /\ d_init
    /\ p_init
    /\ r_init

SpecLegacy == InitLegacy /\ [][NextStale]_vars

\* one more event of the device pages, within the bounds
DeviceStep ==
    /\ Len(w_sockets') <= MaxSockets - 1
    /\ d_events < MaxEvents
    /\ d_events' = d_events + 1

\* The pages over the websocket store and the devices store: the dashboard
\* (mounted, destroyed, its tabs, its sync button, its error message closed),
\* the store's reset, a page that only connects (admin,
\* climate), the socket's events and timers, the feed, and the device cards;
\* one socket fewer than MaxSockets and at most MaxEvents events, the data
\* taking the room.
NextDevices ==
    \/ W_mount /\ DeviceStep
    \/ W_connect /\ DeviceStep
    \/ W_disconnect /\ DeviceStep
    \/ \E i \in 1..Len(w_sockets) : W_open(i) /\ DeviceStep
    \/ \E i \in 1..Len(w_sockets) : W_error(i) /\ DeviceStep
    \/ \E i \in 1..Len(w_sockets) : W_close(i) /\ DeviceStep
    \/ W_reconnect /\ DeviceStep
    \/ W_ping /\ DeviceStep
    \/ \E i \in 1..Len(w_sockets) : \E frame \in DeviceFrames :
            W_message(i, frame) /\ DeviceStep
    \/ \E tab \in Tabs : P_tab(tab) /\ DeviceStep
    \/ D_load /\ DeviceStep
    \/ \E data \in Inventories : D_loadResolve(data) /\ DeviceStep
    \/ \E err \in Rejections : D_loadReject(err) /\ DeviceStep
    \/ D_clearError /\ DeviceStep
    \/ D_reset /\ DeviceStep
    \/ \E id \in CardIds : C_toggle(id) /\ DeviceStep
    \/ \E id \in CardIds : \E newLevel \in Levels :
            C_levelChange(id, newLevel) /\ DeviceStep
    \/ \E id \in CardIds : C_lockToggle(id) /\ DeviceStep
    \/ \E id \in CardIds : \E newSetpoint \in Setpoints :
            C_setpointChange(id, newSetpoint) /\ DeviceStep
    \/ \E id \in CardIds : C_favoriteToggle(id) /\ DeviceStep
    \/ \E k \in 1..Len(c_calls) : C_resolve(k) /\ DeviceStep
    \/ \E k \in 1..Len(c_calls) : C_settle(k) /\ DeviceStep
    \/ \E k \in {j \in 1..Len(c_calls) : c_calls[j].op = "favorite"} :
            \E data \in {None} \cup {Some(d) : d \in ServerDevice(c_calls[k].id,
                                                                Val(c_calls[k].arg).boolean)} :
                C_favoriteResolve(k, data) /\ DeviceStep
    \/ \E k \in 1..Len(c_calls) : C_reject(k) /\ DeviceStep
    \/ \E id \in CardIds : C_refreshTimer(id) /\ DeviceStep
    \/ \E id \in CardIds : \E fav \in BOOLEAN :
            \E data \in {None} \cup {Some(d) : d \in ServerDevice(id, fav)} :
                C_fetchResolve(id, data) /\ DeviceStep
    \/ \E id \in CardIds : C_fetchReject(id) /\ DeviceStep

SpecDevices == Init /\ [][NextDevices]_vars

\* every step of either store and of the pages over them
Next == NextTrading \/ NextDevices

Spec == Init /\ [][Next]_vars

\* both streams, each with its page
SpecSync == Init /\ [][NextStale \/ NextDevices]_vars

----------------------------------------------------------------------------
(* Vocabulary of the claims *)

Live(socks) == {i \in 1..Len(socks) : socks[i].readyState \in {"CONNECTING", "OPEN"}}
Closed(socks) == {i \in 1..Len(socks) : socks[i].readyState = "CLOSED"}
Opened(socks) == {i \in 1..Len(socks) : socks[i].readyState = "OPEN"}

\* disconnect() has never torn anything down
NeverTorn(torn, socks) == ~torn /\ \A i \in 1..Len(socks) : ~socks[i].torn

\* lastUpdate is set and more than the threshold in the past
OlderThanThreshold(lastUpdate, clock) ==
    /\ lastUpdate # None
    /\ GetTime(Val(lastUpdate)) # None
    /\ clock - Val(GetTime(Val(lastUpdate))) > STALE_THRESHOLD_MS

\* the step accepts an envelope
AcceptStep ==
    \E i \in 1..Len(t_sockets) : \E frame \in Frames(now) :
        frame # Malformed /\ accepted(frame) /\ T_message(i, frame)

OFFLINE == [status |-> "OFFLINE", isStale |-> TRUE]

----------------------------------------------------------------------------
(* C1: when the stale-check tick runs with a lastUpdate older than the
   threshold, traderStatus is OFFLINE with isStale = TRUE after the tick,
   whatever status was last received. *)
C1_StalenessOverridesStatus ==
    [][(T_staleCheck /\ OlderThanThreshold(t_state.lastUpdate, now))
            => traderStatus' = OFFLINE]_vars

(* C2: after disconnect(), until a page calls connect() again, no timer is
   pending, the store holds no channel, and the state is the one
   disconnect() left; for both stores. *)
C2_DisconnectIsFinal ==
    /\ t_torn => /\ t_timeouts = 0 /\ t_intervals = 0
                 /\ t_ws = 0
                 /\ t_state = initialState
    /\ w_torn => /\ w_timeouts = 0 /\ w_intervals = 0
                 /\ w_ws = 0
                 /\ w_state = w_initialState

(* C3: after disconnect() then connect(), no event of a channel that
   disconnect() tore down changes the state, the timers or the channel of the
   store; for both stores. *)
C3_OldChannelIsMute ==
    [][/\ \A i \in 1..Len(t_sockets) :
            (t_sockets[i].torn /\ ~t_torn /\ (T_close(i) \/ T_error(i)))
                => UNCHANGED <<t_state, t_ws, t_reconnectTimer, t_timeouts,
                               t_staleCheckTimer, t_intervals>>
       /\ \A i \in 1..Len(w_sockets) :
            (w_sockets[i].torn /\ ~w_torn /\ (W_close(i) \/ W_error(i)))
                => UNCHANGED <<w_state, w_ws, w_reconnectTimer, w_timeouts,
                               w_pingInterval, w_intervals>>]_vars

(* C4: a store never has more than one socket, with its handlers attached,
   that is connecting or open. *)
C4_SingleChannel ==
    /\ Cardinality(Live(t_sockets)) <= 1
    /\ Cardinality(Live(w_sockets)) <= 1

(* C5: at most one reconnect timer is pending; only a close event creates one
   (an error event leaves the timers alone); after a close event exactly one
   is pending, however many close events came before the timer fires; and
   when it fires, connect() runs and no timer is left; for both stores. *)
C5_SingleReconnect ==
    [][/\ t_timeouts' <= 1
       /\ (t_timeouts' > t_timeouts) => \E i \in 1..Len(t_sockets) : T_close(i)
       /\ \A i \in 1..Len(t_sockets) :
            /\ T_close(i) => (t_timeouts' = 1 /\ t_reconnectTimer')
            /\ T_error(i) => UNCHANGED <<t_timeouts, t_reconnectTimer>>
       /\ T_reconnect => (t_timeouts' = 0 /\ ~t_reconnectTimer')
       /\ w_timeouts' <= 1
       /\ (w_timeouts' > w_timeouts) => \E i \in 1..Len(w_sockets) : W_close(i)
       /\ \A i \in 1..Len(w_sockets) :
            /\ W_close(i) => (w_timeouts' = 1 /\ w_reconnectTimer')
            /\ W_error(i) => UNCHANGED <<w_timeouts, w_reconnectTimer>>
       /\ W_reconnect => (w_timeouts' = 0 /\ ~w_reconnectTimer')]_vars

\* two channels of a store have closed and one reconnect timer is pending
C5_Witness ==
    \/ Cardinality(Closed(t_sockets)) >= 2 /\ t_timeouts = 1 /\ Len(t_sockets) = 2
    \/ Cardinality(Closed(w_sockets)) >= 2 /\ w_timeouts = 1 /\ Len(w_sockets) = 2

(* C6: as long as disconnect() has not been called, once connect() has been
   called the store's channel is open, or an attempt is in progress, or a
   reconnect timer is pending; for both stores. *)
C6_AlwaysRetrying ==
    /\ (t_sockets # <<>> /\ NeverTorn(t_torn, t_sockets) /\ t_failing = 0)
        => /\ t_ws # 0
           /\ \/ t_sockets[t_ws].readyState \in {"CONNECTING", "OPEN"}
              \/ t_timeouts > 0
    /\ (w_sockets # <<>> /\ NeverTorn(w_torn, w_sockets) /\ w_failing = 0)
        => /\ w_ws # 0
           /\ \/ w_sockets[w_ws].readyState \in {"CONNECTING", "OPEN"}
              \/ w_timeouts > 0

(* C7: device websocket store: while a channel has closed unexpectedly and no
   channel has opened since, connected is FALSE and reconnecting is TRUE. *)
C7_ReconnectingUntilOpen ==
    (/\ Closed(w_sockets) # {} /\ Opened(w_sockets) = {}
     /\ NeverTorn(w_torn, w_sockets) /\ w_failing = 0)
        => (~w_state.connected /\ w_state.reconnecting)

(* C8: every open event sets connected = TRUE and error = null, and the
   trading store's channel that opens carries exactly one subscribe frame,
   as its first outbound frame. *)
C8_OpenSubscribes ==
    [][/\ \A i \in 1..Len(t_sockets) :
            T_open(i) => /\ t_state'.connected /\ t_state'.error = None
                         /\ t_sockets'[i].sent = <<"subscribe">>
       /\ \A i \in 1..Len(t_sockets') :
            \A k \in 1..Len(t_sockets'[i].sent) :
                (t_sockets'[i].sent[k] = "subscribe") <=> (k = 1)
       /\ \A i \in 1..Len(w_sockets) :
            W_open(i) => (w_state'.connected /\ w_state'.error = None)]_vars

(* C9: immediately after the store accepts an envelope, for every envelope the
   feed may deliver, traderStatus has isStale = FALSE and is not OFFLINE. *)
C9_AcceptMakesFresh ==
    [][AcceptStep => (~traderStatus'.isStale /\ traderStatus'.status # "OFFLINE")]_vars

\* the step accepts an envelope whose timestamp (the envelope's, else the
\* payload's, else the current time) is not older than the threshold
FreshAcceptStep ==
    \E i \in 1..Len(t_sockets) : \E frame \in Frames(now) :
        /\ frame # Malformed /\ accepted(frame) /\ T_message(i, frame)
        /\ ~isDataStale(messageTimeOf(frame, now), now)

(* C9, amended: immediately after the store accepts an envelope whose
   timestamp is not older than the staleness threshold, traderStatus is not
   OFFLINE, and has isStale = FALSE if an engine or heartbeat message has
   been received. *)
C9_FreshAcceptMakesFresh ==
    [][FreshAcceptStep =>
         /\ traderStatus'.status # "OFFLINE"
         /\ (t_state'.engine # None \/ t_state'.heartbeat # None)
                => ~traderStatus'.isStale]_vars

\* the tick had demoted the engine, and a later envelope made the data fresh again
C9_Witness ==
    /\ t_state.engine # None /\ Val(t_state.engine).status = "DOWN"
    /\ ~traderStatus.isStale
    /\ now > STALE_THRESHOLD_MS

\* traderStatus goes from fresh to stale in this step
FreshToStale == ~traderStatus.isStale /\ traderStatus'.isStale

(* C10: only the stale-check tick takes traderStatus from isStale = FALSE to
   isStale = TRUE (disconnect() and reset(), which put the whole state back to
   the initial one, set aside). *)
C10_OnlyTickMakesStale ==
    [][FreshToStale => (T_staleCheck \/ T_disconnect \/ T_reset)]_vars

(* C10, amended: traderStatus goes from isStale = FALSE to isStale = TRUE only
   by disconnect() or reset(), or in a step that updates the store while lastUpdate is
   older than the threshold (the tick, another handler's update, or the
   acceptance of an envelope that carries an old timestamp), and then it is
   OFFLINE; a command, a dropped frame and the passing of time alone never
   do it. *)
C10_StaleOnlyByAge ==
    [][FreshToStale =>
         \/ T_disconnect
         \/ T_reset
         \/ /\ traderStatus' = OFFLINE
            /\ OlderThanThreshold(t_state'.lastUpdate, now)
            /\ ~T_command /\ ~AdvanceClock
            /\ \A i \in 1..Len(t_sockets) : \A frame \in Frames(now) :
                  T_message(i, frame) => (frame # Malformed /\ accepted(frame))]_vars

\* stale although the engine's last status says RUNNING: no tick has demoted it
C10_Witness ==
    /\ traderStatus = OFFLINE
    /\ t_state.engine # None /\ Val(t_state.engine).status = "RUNNING"

----------------------------------------------------------------------------
(* C11: the stale-check tick changes no entity slice of the trading state
   (heartbeat, engine with its status field, summary). *)
C11_TickPreservesValues ==
    [][T_staleCheck => /\ t_state'.heartbeat = t_state.heartbeat
                       /\ t_state'.engine = t_state.engine
                       /\ t_state'.summary = t_state.summary]_vars

----------------------------------------------------------------------------
(* traderStatus as a function: the trading states it is applied to *)

\* the values of ServiceStatus.status
ServiceStatuses == {"HEALTHY", "DEGRADED", "DOWN", "UNKNOWN", "RUNNING", "PAUSED",
                    "STOPPED", "ok", "warning", "error", "unknown"}

\* trading states of the shape the store produces: while lastUpdate is null no
\* envelope has been accepted since the initial state
ClassifyStates ==
    {s \in {[initialState EXCEPT !.lastUpdate = lu, !.heartbeat = hb,
                                 !.engine = en, !.summary = su] :
                lu \in {None, Some(Iso(0)), Some(NotADate)},
                hb \in {None, Some([status |-> "ok", timestamp |-> None])},
                en \in {None} \cup
                       {Some([status |-> st, mode |-> "LIVE", timestamp |-> None]) :
                          st \in ServiceStatuses},
                su \in {None, Some([timestamp |-> None])}} :
        (s.lastUpdate = None) =>
            (s.heartbeat = None /\ s.engine = None /\ s.summary = None)}

\* Date.now() at the evaluation: the age of Iso(0) is below, at and above the threshold
ClassifyClocks == {0, STALE_THRESHOLD_MS, STALE_THRESHOLD_MS + 1, 3 * ClockStep}

\* the derived store has no value before its first subscriber
NotSubscribed == [status |-> "", isStale |-> TRUE]

InitClassify ==
    /\ stream = "classify"
    /\ now \in ClassifyClocks
    /\ t_state \in ClassifyStates
    /\ t_ws = 0
    /\ t_reconnectTimer = FALSE
    /\ t_staleCheckTimer = FALSE
    /\ t_sockets = <<>>
    /\ t_timeouts = 0
    /\ t_intervals = 0
    /\ t_failing = 0
    /\ t_torn = FALSE
    /\ traderStatus = NotSubscribed
    /\ w_state = w_initialState
    /\ w_ws = 0
    /\ w_reconnectTimer = FALSE
    /\ w_pingInterval = FALSE
    /\ w_sockets = <<>>
    /\ w_timeouts = 0
    /\ w_intervals = 0
    /\ w_failing = 0
    /\ w_torn = FALSE
    /\ d_init
    /\ p_init
    /\ r_init

\* a subscriber reads $traderStatus for the state
Classify ==
    /\ stream = "classify"
    /\ traderStatus' = traderStatusOf(t_state, now)
    /\ UNCHANGED <<stream, f_power, p_vars, r_vars, now, t_state, t_ws, t_reconnectTimer, t_staleCheckTimer,
                   t_sockets, t_timeouts, t_intervals, t_failing, t_torn, w_vars, d_vars,
                   d_events>>

SpecClassify == InitClassify /\ [][Classify]_vars

(* C12: traderStatus classifies in this order: stale data is OFFLINE; else,
   with no engine status received, UNKNOWN; else the engine status normalised
   (RUNNING / ok -> RUNNING, PAUSED / warning -> PAUSED,
   DOWN / error / STOPPED -> STOPPED). *)
C12_StalenessFirst ==
    [][Classify =>
         IF OlderThanThreshold(t_state.lastUpdate, now)
            THEN traderStatus'.status = "OFFLINE"
         ELSE IF t_state.engine = None
            THEN traderStatus'.status = "UNKNOWN"
         ELSE /\ Val(t_state.engine).status \in {"RUNNING", "ok"}
                    => traderStatus'.status = "RUNNING"
              /\ Val(t_state.engine).status \in {"PAUSED", "warning"}
                    => traderStatus'.status = "PAUSED"
              /\ Val(t_state.engine).status \in {"DOWN", "error", "STOPPED"}
                    => traderStatus'.status = "STOPPED"]_vars

----------------------------------------------------------------------------
\* the step delivers frame on channel i, and the store accepts it for a topic
\* that has a reducer of its own in TOPIC_HANDLERS
ReducerStep(i, frame) ==
    /\ frame # Malformed /\ accepted(frame) /\ Val(frame.topic) \in Topics
    /\ T_message(i, frame)

\* state is old with the reducer's partial update for the frame merged in,
\* connected as before and error cleared
MergedWith(state, old, frame) ==
    /\ state.connected = old.connected
    /\ state.error = None
    /\ state.heartbeat = IF Val(frame.topic) = "trader/services/heartbeat"
                          THEN frame.payload ELSE old.heartbeat
    /\ state.engine = IF Val(frame.topic) = "trader/services/engine"
                       THEN frame.payload ELSE old.engine
    /\ state.summary = IF Val(frame.topic) = "trader/portfolio/summary"
                        THEN frame.payload ELSE old.summary

(* C13: accepting an envelope is one step, after which the reducer's partial
   update is merged, lastUpdate is the envelope's timestamp and error is
   null. *)
C13_AcceptIsAtomic ==
    [][\A i \in 1..Len(t_sockets) : \A frame \in Frames(now) :
          ReducerStep(i, frame) =>
              /\ MergedWith(t_state', t_state, frame)
              /\ t_state'.lastUpdate = frame.timestamp]_vars

----------------------------------------------------------------------------
(* C14: a parsed frame that is not of the data kind, or whose topic has no
   reducer in TOPIC_HANDLERS, leaves the trading state as it was; a pong or a
   frame of unknown type leaves the websocket state and the devices state as
   they were; and the channel stays open. *)
C14_UnacceptedFramesAreDropped ==
    [][/\ \A i \in 1..Len(t_sockets) : \A frame \in Frames(now) :
            (/\ frame # Malformed
             /\ \/ frame.type # "mqtt"
                \/ frame.topic # None /\ Val(frame.topic) \notin Topics
             /\ T_message(i, frame))
                => /\ UNCHANGED <<t_state, traderStatus>>
                   /\ t_sockets'[i].readyState = "OPEN"
       /\ \A i \in 1..Len(w_sockets) : \A frame \in DeviceFrames :
            (/\ frame # Malformed
             /\ frame.type \notin {"initial_state", "device_state"}
             /\ W_message(i, frame))
                => /\ UNCHANGED <<w_state, d_state>>
                   /\ w_sockets'[i].readyState = "OPEN"]_vars

(* C15: a frame that fails to parse changes nothing: the state, the timers
   and the connection of the store are as before, so that the frames that
   follow are handled as if it had not arrived; for both stores. *)
C15_MalformedIsContained ==
    [][/\ \A i \in 1..Len(t_sockets) :
            T_message(i, Malformed) => UNCHANGED t_vars
       /\ \A i \in 1..Len(w_sockets) :
            W_message(i, Malformed) => UNCHANGED <<w_vars, d_vars>>]_vars

\* a channel on which frames arrive, with data already received over it
C15_Witness ==
    \/ /\ \E i \in 1..Len(t_sockets) : t_sockets[i].readyState = "OPEN"
       /\ t_state.connected /\ t_state.heartbeat # None /\ t_intervals > 0
    \/ /\ \E i \in 1..Len(w_sockets) : w_sockets[i].readyState = "OPEN"
       /\ w_state.connected /\ w_intervals > 0
       /\ Loaded(1) /\ Shown(1).state.power # None

----------------------------------------------------------------------------
\* the device with key id in a devices state
DeviceOf(state, id) == state.devices[MapIndex(state.devices, id)]

\* the keys of the devices map, in order
Keys(state) == [k \in 1..Len(state.devices) |-> state.devices[k].id]

\* the step delivers the feed's report that the lamp's switch is off
FeedSaysLampOff ==
    \E i \in 1..Len(w_sockets) :
        W_message(i, DeviceStateFrame("lamp", "switch", Text("off")))

(* C16: after an optimistic update that turned the lamp on, a device_state
   message of the feed saying its switch is off leaves the card showing it
   off. *)
C16_FeedWinsOverOptimistic ==
    [][(/\ Loaded(1)
        /\ Shown(1).level = Some(Num(50)) /\ Shown(1).switch_state = Some("on")
        /\ FeedSaysLampOff)
            => ~isOn(DeviceOf(d_state', 1))]_vars

(* C17: when the user issues a switch or level command from a card, the
   predicted value is in the device's stored state as soon as the command is
   issued, before the command's call resolves. *)
C17_OptimisticAtIssue ==
    [][\A id \in CardIds :
          /\ (C_toggle(id) /\ ~c_loading[id])
                => DeviceOf(d_state', id).state.switch = c_calls'[Len(c_calls')].arg
          /\ \A newLevel \in Levels :
                (C_levelChange(id, newLevel) /\ ~c_loading[id])
                    => DeviceOf(d_state', id).state.level = Some(Num(newLevel))]_vars

(* C17, amended: issuing a switch or level command leaves the devices state as
   it is; the predicted value is merged into the device's stored state when
   the command's call resolves, and then a confirmation fetch is scheduled. *)
C17_OptimisticAtResolve ==
    [][/\ \A id \in CardIds :
            (C_toggle(id) \/ \E newLevel \in Levels : C_levelChange(id, newLevel))
                => UNCHANGED d_state
       /\ \A k \in 1..Len(c_calls) :
            (C_resolve(k) /\ Loaded(c_calls[k].id)) =>
                LET call == c_calls[k]
                    device == DeviceOf(d_state', call.id)
                IN  /\ c_refresh'[call.id] = c_refresh[call.id] + 1
                    /\ call.op = "switch" =>
                          /\ device.switch_state = Some(Val(call.arg).text)
                          /\ device.state.switch = call.arg
                    /\ call.op = "level" =>
                          /\ device.level = call.arg
                          /\ device.state.level = call.arg
                          /\ device.state.switch = Some(Text(Val(device.switch_state)))
                          /\ (device.switch_state = Some("on"))
                                <=> (Val(call.arg).number > 0)]_vars

\* a level command has resolved: the predicted level is stored, the card is no
\* longer loading and the confirmation fetch is pending
C17_Witness ==
    /\ Loaded(1)
    /\ Shown(1).level = Some(Num(50)) /\ Shown(1).state.level = Some(Num(50))
    /\ ~c_loading[1] /\ c_calls = <<>> /\ c_refresh[1] = 1

(* C18: failures roll no optimistic value back: when a command of a card
   rejects, a device whose stored switch value is 'on', as the optimistic switch
   update writes it, still has it 'on'; and a confirmation fetch that fails
   leaves the devices state as it was. *)
C18_FailuresRollNothingBack ==
    [][/\ \A k \in 1..Len(c_calls) :
            (/\ C_reject(k) /\ Loaded(c_calls[k].id)
             /\ DeviceOf(d_state, c_calls[k].id).switch_state = Some("on")
             /\ DeviceOf(d_state, c_calls[k].id).state.switch = Some(Text("on")))
                => /\ MapIndex(d_state'.devices, c_calls[k].id) # 0
                   /\ DeviceOf(d_state', c_calls[k].id).switch_state = Some("on")
                   /\ DeviceOf(d_state', c_calls[k].id).state.switch = Some(Text("on"))
       /\ \A id \in CardIds : C_fetchReject(id) => UNCHANGED d_state]_vars

\* the lamp's switch is 'on' by an optimistic update whose confirmation fetch
\* is still to come, and a command of its card has been rejected
C18_Witness ==
    /\ Loaded(1)
    /\ Shown(1).switch_state = Some("on") /\ Shown(1).state.switch = Some(Text("on"))
    /\ c_refresh[1] > 0
    /\ c_console = Some("Failed to toggle device:")
    /\ c_calls = <<>>

\* the step is a feed-driven update or an optimistic update of the devices store
FeedOrOptimisticStep ==
    \/ \E i \in 1..Len(w_sockets) : \E frame \in DeviceFrames : W_message(i, frame)
    \/ \E k \in 1..Len(c_calls) : C_resolve(k)

(* C19: feed-driven updates and optimistic updates add no key to the devices
   map and remove none; one that names a device that is not in the map leaves
   the devices state as it was. *)
C19_NoInventedDevices ==
    [][/\ FeedOrOptimisticStep => Keys(d_state') = Keys(d_state)
       /\ \A i \in 1..Len(w_sockets) :
            /\ W_message(i, DeviceStateFrame("ghost", "switch", Text("on")))
                  => UNCHANGED d_state
            /\ \A frame \in DeviceFrames :
                  (/\ frame # Malformed /\ frame.type = "device_state"
                   /\ FindDevice(d_state.devices, frame.payload.device_id) = 0
                   /\ W_message(i, frame))
                      => UNCHANGED d_state
       /\ \A k \in 1..Len(c_calls) :
            (C_resolve(k) /\ ~Loaded(c_calls[k].id)) => UNCHANGED d_state]_vars

\* a command issued from the lamp's card has resolved after the lamp had left
\* the map: the map still holds the other devices only
C19_Witness ==
    /\ Keys(d_state) = <<2, 3>>
    /\ c_refresh[1] = 1 /\ c_calls = <<>>
    /\ \E i \in 1..Len(w_sockets) : w_sockets[i].readyState = "OPEN"

\* in state new, nothing differs from old but, at most, the attributes of the
\* device at position k for which carried holds
OnlyAttributesChange(new, old, k, carried(_)) ==
    /\ Len(new.devices) = Len(old.devices)
    /\ \A j \in 1..Len(old.devices) :
          IF j # k THEN new.devices[j] = old.devices[j]
          ELSE /\ \A f \in {"id", "name", "label"} :
                     new.devices[j][f] = old.devices[j][f]
               /\ \A a \in Attributes :
                     ~carried(a) => new.devices[j].state[a] = old.devices[j].state[a]

(* C20: an update of an existing device is a shallow merge: a device_state
   message changes only its attribute of its device, an initial_state message
   and the result of a confirmation fetch change only the attributes they
   carry; the other attributes and the other devices keep their values. *)
C20_ShallowMerge ==
    [][/\ \A i \in 1..Len(w_sockets) : \A frame \in DeviceFrames :
            (/\ frame # Malformed /\ frame.type = "device_state"
             /\ W_message(i, frame))
                => LET k == FindDevice(d_state.devices, frame.payload.device_id)
                       carried(a) == a = frame.payload.attribute
                   IN  /\ OnlyAttributesChange(d_state', d_state, k, carried)
                       /\ k # 0 => d_state'.devices[k].switch_state
                                      = d_state.devices[k].switch_state
       /\ \A i \in 1..Len(w_sockets) : \A frame \in DeviceFrames :
            (/\ frame # Malformed /\ frame.type = "initial_state"
             /\ W_message(i, frame))
                => /\ Len(d_state'.devices) = Len(d_state.devices)
                   /\ \A k \in 1..Len(d_state.devices) :
                      LET carried(a) ==
                            \E n \in 1..Len(frame.payload) :
                               /\ FindDevice(d_state.devices, frame.payload[n][1]) = k
                               /\ frame.payload[n][2][a] # None
                      IN  /\ \A f \in {"id", "name", "label", "switch_state", "level"} :
                                d_state'.devices[k][f] = d_state.devices[k][f]
                          /\ \A a \in Attributes :
                                ~carried(a) => d_state'.devices[k].state[a]
                                                  = d_state.devices[k].state[a]
       /\ \A id \in CardIds : \A fav \in BOOLEAN : \A device \in ServerDevice(id, fav) :
            (C_fetchResolve(id, Some(device)) /\ Loaded(id))
                => LET k == MapIndex(d_state.devices, id)
                       carried(a) == device.state[a] # None
                   IN  OnlyAttributesChange(d_state', d_state, k, carried)]_vars

----------------------------------------------------------------------------
(* Two instances of the trading store (two tabs of the trading page) that the
   bridge feeds the same frames; the second one runs later by LagSteps clock
   steps.  Both channels are open; only the reducer path is followed. *)

\* payloads of the history topics: the summary of the last days, and the
\* incremental update for one day
Day(date, trades) == [date |-> date, trades |-> trades]
Metrics(date, accuracy) == [date |-> date, accuracy |-> accuracy]

HistorySummaries ==
    {[period_days |-> 30, daily_stats |-> <<Day("d1", 1)>>,
      ml_metrics |-> <<Metrics("d1", 1)>>, timestamp |-> None]}

HistoryUpdates ==
    {[daily_stats |-> Day("d1", 2), ml_metrics |-> Metrics("d1", 2), timestamp |-> None],
     [daily_stats |-> Day("d2", 1), ml_metrics |-> Metrics("d2", 1), timestamp |-> None]}

Envelope(topic, payload, timestamp) ==
    [type |-> "mqtt", topic |-> Some(topic), payload |-> Some(payload),
     timestamp |-> timestamp]

\* the frames the bridge delivers to both instances: a topic of each kind of
\* reducer (the control status with the stock market in the nested format and
\* the forex market in the flat one), and inherited keys whose value returns
\* and throws
ReplayFrames ==
    {Envelope("trader/services/engine", pl, None) :
        pl \in Payloads("trader/services/engine")}
    \cup {Envelope("trader/portfolio/positions",
                   [positions |-> Some(<<[symbol |-> "AAPL", quantity |-> 10]>>)],
                   None),
          Envelope("trader/control/status",
                   [stock |-> Some([enabled |-> Some(FALSE),
                                    reason |-> Some("halted")]),
                    forex_enabled |-> Some(FALSE)],
                   Some(Iso(0)))}
    \cup {Envelope("trader/history/daily_stats", pl, Some(Iso(0))) : pl \in HistorySummaries}
    \cup {Envelope("trader/history/update", pl, Some(Iso(0))) : pl \in HistoryUpdates}
    \cup {Envelope("trader/services/heartbeat",
                   [status |-> "ok", timestamp |-> Some([text |-> ""])], None),
          Envelope("trader/services/heartbeat", [boolean |-> FALSE], Some(Iso(0)))}
    \cup {Envelope("toString", [timestamp |-> None], Some(Iso(0))),
          Envelope("valueOf", [timestamp |-> None], Some(Iso(0))), Malformed}

Replay == stream = "replay"

InitReplay ==
    /\ stream \in {"replay", "device"}
    /\ now = 0
    /\ t_state = initialState
    /\ t_ws = 0
    /\ t_reconnectTimer = FALSE
    /\ t_staleCheckTimer = FALSE
    /\ t_sockets = <<>>
    /\ t_timeouts = 0
    /\ t_intervals = 0
    /\ t_failing = 0
    /\ t_torn = FALSE
    /\ traderStatus = traderStatusOf(initialState, 0)
    /\ w_state = w_initialState
    /\ w_ws = 0
    /\ w_reconnectTimer = FALSE
    /\ w_pingInterval = FALSE
    /\ w_sockets = <<>>
    /\ w_timeouts = 0
    /\ w_intervals = 0
    /\ w_failing = 0
    /\ w_torn = FALSE
    /\ d_init
    /\ p_init
    /\ r_twin = initialState
    /\ r_clock \in IF Replay THEN {0, ClockStep} ELSE {0}
    /\ r_log = <<>>

\* ws.onmessage of both instances, for the same frame
R_message(frame) ==
    /\ Replay
    /\ Len(r_log) < MaxLog
    /\ t_onmessage(frame)
    /\ r_twin' = IF frame = Malformed THEN r_twin
                 ELSE handleMessage(r_twin, frame, r_clock)
    /\ r_log' = IF frame # Malformed /\ accepted(frame) /\ ~handlerThrows(frame)
                THEN Append(r_log, frame) ELSE r_log
    /\ UNCHANGED <<t_ws, t_reconnectTimer, t_staleCheckTimer, t_sockets, t_timeouts,
                   t_intervals, t_failing, t_torn, now, r_clock, stream,
                   f_power, p_vars, w_vars, d_vars, d_events>>

\* time passes for both instances
R_advance ==
    /\ Replay
    /\ now < MaxReplayTicks * ClockStep
    /\ now' = now + ClockStep
    /\ r_clock' = r_clock + ClockStep
    /\ UNCHANGED <<stream, t_vars, r_twin, r_log, f_power, p_vars, w_vars, d_vars, d_events>>

NextReplay ==
    \/ \E frame \in ReplayFrames : R_message(frame)
    \/ R_advance

\* the reducers of both streams: the trading store's under replay, the devices
\* store's as the dashboard drives it
SpecReplay == InitReplay /\ [][NextReplay \/ NextDevices]_vars

\* the time between the two deliveries of an envelope, in ms
RedeliveryDelays == {0, 1}

(* C21: in every reachable state, for every frame of either stream, handling
   the frame a second time right after the first gives the state the first
   handling gave. *)
C21_RedeliveryIsIdempotent ==
    /\ Replay =>
         \A frame \in ReplayFrames \ {Malformed} : \A delay \in RedeliveryDelays :
            LET once == handleMessage(t_state, frame, now)
            IN  handleMessage(once, frame, now + delay) = once
    /\ stream = "device" =>
         \A frame \in DeviceFrames \ {Malformed} :
            LET once == w_handleMessage(d_state, frame)
            IN  w_handleMessage(once, frame) = once

(* C21, amended: handling a frame a second time right after the first gives the
   slices and the error flag of the trading state, and the whole devices
   state, the first handling gave.  lastUpdate is as the first handling left it
   when the envelope is not accepted or carries a timestamp that is not empty
   (the wrapper's, else the payload's); otherwise it is the time of the second
   arrival. *)
C21_RedeliveryKeepsSlices ==
    /\ Replay =>
         \A frame \in ReplayFrames \ {Malformed} : \A delay \in RedeliveryDelays :
            LET once == handleMessage(t_state, frame, now)
                twice == handleMessage(once, frame, now + delay)
            IN  /\ [twice EXCEPT !.lastUpdate = None] = [once EXCEPT !.lastUpdate = None]
                /\ twice.lastUpdate =
                      IF /\ accepted(frame) /\ ~handlerThrows(frame)
                         /\ ~Truthy(frame.timestamp)
                         /\ ~Truthy(Get(Val(frame.payload), "timestamp"))
                      THEN Some(Iso(now + delay))
                      ELSE once.lastUpdate
    /\ stream = "device" =>
         \A frame \in DeviceFrames \ {Malformed} :
            LET once == w_handleMessage(d_state, frame)
            IN  w_handleMessage(once, frame) = once

\* the update for a day the summary did not have was delivered twice in a row:
\* the day is in the summary once
C21_Witness ==
    /\ Len(r_log) >= 3
    /\ Val(r_log[Len(r_log)].topic) = "trader/history/update"
    /\ r_log[Len(r_log)] = r_log[Len(r_log) - 1]
    /\ t_state.historySummary # None
    /\ Val(t_state.historySummary).daily_stats = <<Day("d2", 1), Day("d1", 1)>>

----------------------------------------------------------------------------
\* the reducers folded over a sequence of envelopes, from the initial state:
\* the slices and the error flag, lastUpdate set aside
RECURSIVE FoldReducers(_, _)
FoldReducers(log, n) ==
    IF n = 0 THEN initialState
    ELSE LET state == FoldReducers(log, n - 1)
             updates == TOPIC_HANDLERS(Val(log[n].topic), state, Val(log[n].payload))
         IN  [Spread(state, updates) EXCEPT !.lastUpdate = None, !.error = None]

\* a trading state without its lastUpdate
Slices(state) == [state EXCEPT !.lastUpdate = None]

\* message.timestamp || payloadTimestamp: the timestamp the envelope itself
\* carries, on the wrapper or in the payload; None when neither is truthy
OwnTimestamp(message) ==
    LET payloadTimestamp == Get(Val(message.payload), "timestamp")
    IN  IF Truthy(message.timestamp) THEN message.timestamp
        ELSE IF Truthy(payloadTimestamp) THEN payloadTimestamp
        ELSE None

(* C22: two instances of the trading store fed the same frames in the same
   order are in equal states (slices, lastUpdate, error), which is the fold of
   the reducers over the accepted envelopes; no clock reading enters. *)
C22_StateIsFoldOfEnvelopes ==
    Replay =>
        /\ t_state = r_twin
        /\ Slices(t_state) = FoldReducers(r_log, Len(r_log))

(* C22, amended: the slices and the error flag of both instances are the fold of
   the reducers over the accepted envelopes; lastUpdate is null before the first
   accepted envelope, then the timestamp of the last accepted envelope (the
   wrapper's, else the payload's) if it carries one, and otherwise the clock
   reading of the instance when that envelope arrived, so that two instances
   differ in lastUpdate by the difference of their clocks. *)
C22_SlicesAreFoldOfEnvelopes ==
    Replay =>
        /\ Slices(t_state) = FoldReducers(r_log, Len(r_log))
        /\ Slices(r_twin) = FoldReducers(r_log, Len(r_log))
        /\ IF r_log = <<>>
           THEN t_state.lastUpdate = None /\ r_twin.lastUpdate = None
           ELSE LET own == OwnTimestamp(r_log[Len(r_log)])
                IN  IF own # None
                    THEN t_state.lastUpdate = own /\ r_twin.lastUpdate = own
                    ELSE /\ Val(GetTime(Val(t_state.lastUpdate))) <= now
                         /\ Val(GetTime(Val(r_twin.lastUpdate)))
                                - Val(GetTime(Val(t_state.lastUpdate))) = r_clock - now

\* an envelope without a timestamp was the last of three accepted: the two
\* instances hold the same slices and different lastUpdate
C22_Witness ==
    /\ Len(r_log) = 3 /\ OwnTimestamp(r_log[3]) = None
    /\ t_state.positions # <<>> /\ t_state.historySummary # None
    /\ Slices(t_state) = Slices(r_twin)
    /\ t_state.lastUpdate = Some(Iso(now)) /\ r_twin.lastUpdate = Some(Iso(r_clock))
    /\ now > 0 /\ now # r_clock

----------------------------------------------------------------------------
\* the sequence with the envelopes at k and k + 1 in the other order
SwapAt(log, k) == [log EXCEPT ![k] = log[k + 1], ![k + 1] = log[k]]

(* C23: after any sequence of accepted envelopes, had two adjacent envelopes
   of different topics arrived in the other order, every slice would be the
   same. *)
C23_CrossTopicOrderIsIrrelevant ==
    Replay =>
        \A k \in 1..(Len(r_log) - 1) :
            r_log[k].topic # r_log[k + 1].topic
                => FoldReducers(SwapAt(r_log, k), Len(r_log)) = Slices(t_state)

----------------------------------------------------------------------------
(* C24: a control command sends one publish frame on the store's channel and
   returns true when that channel is open; otherwise it sends nothing and
   returns false; the trading state is as before in both cases. *)
C24_CommandNeedsOpenChannel ==
    [][T_command =>
         /\ UNCHANGED <<t_state, traderStatus>>
         /\ IF IsOpen(t_sockets, t_ws)
            THEN /\ t_returned' = Some(TRUE)
                 /\ t_sockets'[t_ws].sent = Append(t_sockets[t_ws].sent, "publish")
                 /\ \A i \in 1..Len(t_sockets) : i # t_ws => t_sockets'[i] = t_sockets[i]
            ELSE /\ t_returned' = Some(FALSE)
                 /\ t_sockets' = t_sockets]_vars

\* a command was sent on the open channel, and a later one, issued after
\* disconnect(), was refused
C24_Witness ==
    /\ t_returned = Some(FALSE)
    /\ t_ws = 0
    /\ \E i \in 1..Len(t_sockets) : t_sockets[i].sent = <<"subscribe", "publish">>

----------------------------------------------------------------------------
(* C25: once a handler has run (and the close event that follows an error
   event with it), connected is TRUE whenever the store's current channel is
   open; for both stores. *)
C25_OpenChannelIsConnected ==
    /\ (stream = "trading" /\ t_failing = 0 /\ IsOpen(t_sockets, t_ws))
          => t_state.connected
    /\ (stream = "device" /\ w_failing = 0 /\ IsOpen(w_sockets, w_ws))
          => w_state.connected

----------------------------------------------------------------------------
(* C26: after the stale-check tick has demoted the engine, when a fresh
   envelope of another topic is accepted, traderStatus is the classification
   of the engine status the feed sent last (the feed of the model only ever
   sends RUNNING). *)
C26_RecoveryRestoresFeedStatus ==
    [][\A i \in 1..Len(t_sockets) : \A frame \in Frames(now) :
          (/\ ReducerStep(i, frame)
           /\ Val(frame.topic) # "trader/services/engine"
           /\ ~isDataStale(messageTimeOf(frame, now), now)
           /\ t_state.engine # None /\ Val(t_state.engine).status = "DOWN")
              => traderStatus' = [status |-> "RUNNING", isStale |-> FALSE]]_vars

----------------------------------------------------------------------------
(* C27: whatever the order of the feed's message and the completion of
   load(), once no load is in flight the lamp, if it is loaded, carries in its
   state bag the power the feed has reported since the load was requested. *)
C27_FeedSurvivesLoad ==
    (stream = "device" /\ d_loads = 0 /\ f_power # None /\ Loaded(1))
        => Shown(1).state.power = f_power

----------------------------------------------------------------------------
(* C28: the trading store has at most one active stale-check interval and the
   device websocket store at most one active ping interval; an active interval
   is the one the store's variable refers to; and the device store has no
   active ping interval while none of its channels is open. *)
C28_TimersAreSingleAndOwned ==
    /\ t_intervals = IF t_staleCheckTimer THEN 1 ELSE 0
    /\ w_intervals = IF w_pingInterval THEN 1 ELSE 0
    /\ (w_failing = 0 /\ w_intervals > 0) => Opened(w_sockets) # {}

----------------------------------------------------------------------------
(* servicesHealth as a function: the trading states it is applied to *)

\* a service slice: not received, or a ServiceStatus with one of its statuses
ServiceSlices(statuses) == {None} \cup {Some([status |-> st, timestamp |-> None]) : st \in statuses}

\* the engine and the broker take every status; of the other services three
\* are either not received or ok, the rest not received
HealthStates ==
    {[initialState EXCEPT !.engine = en, !.ibkr = ib, !.mlEntry = ml,
                          !.dna = dn, !.breakers = br] :
        en \in ServiceSlices(ServiceStatuses), ib \in ServiceSlices(ServiceStatuses),
        ml \in ServiceSlices({"ok"}), dn \in ServiceSlices({"ok"}),
        br \in ServiceSlices({"ok"})}

InitHealth ==
    /\ stream = "health"
    /\ now = 0
    /\ t_state \in HealthStates
    /\ t_ws = 0
    /\ t_reconnectTimer = FALSE
    /\ t_staleCheckTimer = FALSE
    /\ t_sockets = <<>>
    /\ t_timeouts = 0
    /\ t_intervals = 0
    /\ t_failing = 0
    /\ t_torn = FALSE
    /\ traderStatus = NotSubscribed
    /\ w_state = w_initialState
    /\ w_ws = 0
    /\ w_reconnectTimer = FALSE
    /\ w_pingInterval = FALSE
    /\ w_sockets = <<>>
    /\ w_timeouts = 0
    /\ w_intervals = 0
    /\ w_failing = 0
    /\ w_torn = FALSE
    /\ d_init
    /\ p_init
    /\ r_init

\* a subscriber reads $servicesHealth for the state
Health ==
    /\ stream = "health"
    /\ servicesHealth' = servicesHealthOf(t_state)
    /\ UNCHANGED <<stream, now, t_vars, w_vars, d_vars, d_events, f_power,
                   t_returned, r_vars>>

SpecHealth == InitHealth /\ [][Health]_vars

(* C29: for every trading state, servicesHealth counts each of the 10 services
   in exactly one of healthy, degraded, down, unknown:
   healthy + degraded + down + unknown = total = 10. *)
C29_HealthPartitions ==
    servicesHealth # NotRead =>
        /\ servicesHealth.total = 10
        /\ servicesHealth.healthy + servicesHealth.degraded
             + servicesHealth.down + servicesHealth.unknown = servicesHealth.total

----------------------------------------------------------------------------
(* The device card and its controls *)

\* the user works a control of the card of id
Handler(id) ==
    \/ C_toggle(id)
    \/ \E newLevel \in Levels : C_levelChange(id, newLevel)
    \/ C_lockToggle(id)
    \/ \E newSetpoint \in Setpoints : C_setpointChange(id, newSetpoint)
    \/ C_favoriteToggle(id)

\* the calls in flight that the card of id on the page is awaiting
Mine(calls, id) == {k \in 1..Len(calls) : calls[k].id = id /\ calls[k].mine}

\* the step settles call k: it resolves or it rejects
Settles(k) ==
    \/ C_resolve(k)
    \/ C_settle(k)
    \/ C_reject(k)
    \/ /\ c_calls[k].op = "favorite"
       /\ \E data \in {None} \cup {Some(d) : d \in ServerDevice(c_calls[k].id,
                                                           Val(c_calls[k].arg).boolean)} :
              C_favoriteResolve(k, data)

(* C30: a device card has at most one command in flight.  A card awaits at most
   one call; a command starts only on a card that is not loading and sets
   loading; working a control of a card that is loading changes nothing; when
   the card's command settles (resolves or rejects) loading is false again; and
   a card is loading exactly while its command is in flight. *)
C30_OneCommandInFlight ==
    [][\A id \in CardIds :
         /\ Cardinality(Mine(c_calls', id)) <= 1
         /\ (Len(c_calls') > Len(c_calls) /\ c_calls'[Len(c_calls')].id = id)
                => (~c_loading[id] /\ c_loading'[id])
         /\ (c_loading[id] /\ Handler(id))
                => UNCHANGED <<d_state, c_loading, c_calls, c_console>>
         /\ \A k \in Mine(c_calls, id) : Settles(k) => ~c_loading'[id]
         /\ c_loading'[id] <=> Mine(c_calls', id) # {}]_vars

\* the lamp's card is awaiting its command while the command of an earlier
\* card of the lamp, since destroyed, is still in flight
C30_Witness ==
    /\ stream = "device"
    /\ c_loading[1]
    /\ Len(c_calls) = 2
    /\ c_calls[1].id = 1 /\ ~c_calls[1].mine
    /\ c_calls[2].id = 1 /\ c_calls[2].mine

====
